---- MODULE Spec2Model ----
(***************************************************************************)
(* Client-side coordinator of a two-chain collateralized loan (INSTANT).   *)
(*                                                                         *)
(* The module models the React components of the frontend as state        *)
(* machines.  Committed React state and the values of the Web3 context    *)
(* are the variables; every asynchronous handler is cut at its awaits,    *)
(* one action per continuation, so that the interleavings of the          *)
(* single-threaded scheduler are the behaviours of the specification.     *)
(*                                                                         *)
(*   SpecSync  the Borrow tab: fetchLoanDetails (the loan-state pull) and *)
(*             handleDepositCollateral, with the wallet/binding changes   *)
(*             that trigger pulls.                                         *)
(*   SpecScan  the Liquidations tab: loadAtRiskLoans (the scan).           *)
(*                                                                         *)
(* Only one tab's content is mounted at a time, which is why each tab has *)
(* a specification of its own; the variables of the other tab stay put.   *)
(***************************************************************************)
EXTENDS Integers, Sequences, FiniteSets, TLC

(***************************************************************************)
(* Bounds of the model.                                                    *)
(***************************************************************************)
\* fetchLoanDetails invocations (Borrow tab) or loadLoanDetails invocations
\* (Repay tab) that may be in flight at the same time
MaxPulls == 2
\* transactions the wallet broadcasts in one behaviour
MaxTx == 1
\* LoanRequested log entries the scans in flight are looking up at one time
MaxEvents == 2
\* connectWallet / switchNetwork invocations in flight when the user starts
\* another, and chainChanged events waiting when the wallet emits another
MaxSwitches == 1

(***************************************************************************)
(* Program constants.                                                      *)
(***************************************************************************)
SEPOLIA_CHAIN_ID == 11155111
BASE_SEPOLIA_CHAIN_ID == 84532
COLLATERALIZATION_RATIO == 150
MS_PER_SECOND == 1000

VARIABLES
    \* ---- Web3Provider (context) ----
    web3,                \* "null" | "instance"
    account,             \* "" when no wallet account is connected
    OriginContract,      \* "null" | "origin"
    DestinationContract, \* "null" | "destination"
    MaticContract,       \* "null" | "matic"
    loanDetails,         \* NullDetails or the parsed LoanDetails record
    \* ---- BorrowTab ----
    collateralStatus,    \* [isFullyCollateralized, requiredCollateral]
    loanAmount,          \* the amount field (ether), kept as its numerator over 10^18
    isProcessing,
    pulls,               \* the fetchLoanDetails invocations in flight, oldest first
    deposit,             \* the handleDepositCollateral invocation
    \* ---- environment of the Borrow tab ----
    numberFormat,        \* how the RPC layer hands over a uint256: "string" | "bigint"
    txCount,             \* transactions broadcast so far
    ledger,              \* TransactionStore: the saved transactions, most recent first
    \* ---- bookkeeping for the properties (never read by an action's guard) ----
    statusSrc,           \* who wrote collateralStatus last, and from which record
    detailsSrc,          \* the raw result whose parse was stored in loanDetails last
    lastStarted,         \* the newer pull of the last two that overlapped
    \* ---- LiquidationsTab ----
    atRiskLoans,
    loading,
    processingLoan,
    scans,               \* the loadAtRiskLoans invocations in flight, oldest first
    \* ---- bookkeeping for the properties (never read by an action's guard) ----
    lastScan,            \* the scan that ended in the last step, if one did: how, its callbacks,
                         \* and its place among the scans then in flight (1 is the oldest)
    lastCallback,        \* the callback that returned in the last step, if one did: what it had read
    \* ---- App (page) ----
    chainId,             \* the chain id the page bound its handles for last
    isLoading,
    switches,            \* connectWallet / switchNetwork / mount invocations in flight
    \* ---- the wallet (environment of the page) ----
    liveChain,           \* the chain the wallet is connected to
    chainEvents,         \* chainChanged events emitted and not yet handled, oldest first
    \* ---- bookkeeping for the properties (never read by an action's guard) ----
    boundBefore,         \* the handles the page's last binding replaced
    \* ---- the loan request (BorrowTab, LoanRequestModal) ----
    isModalOpen,
    isSubmitting,
    request,             \* the handleConfirm invocation
    \* ---- RepayTab ----
    repayAmount,
    activeLoans,
    repayLoading,        \* the tab's loading flag
    loads,               \* the loadLoanDetails invocations in flight, oldest first
    repay,               \* the handleRepay invocation
    \* ---- bookkeeping for the properties (never read by an action's guard) ----
    lastRepay,           \* how the last send() of a repayment ended
    \* ---- LiquidationsTab: handleLiquidate ----
    liquidations,         \* the handleLiquidate invocation
    \* ---- BorrowTab: the estimate and the prices shown with the amount ----
    estimatedCollateral,
    estimates,           \* the updateEstimatedCollateral invocations in flight, oldest first
    estimatedFor,        \* the dependencies the estimate effect ran for last
    maticPrice,
    ethPrice,
    priceError,
    priceCalls,          \* the fetchPrices invocations in flight, oldest first
    \* ---- AccountTab in another window on the same storage ----
    transactions,
    listener             \* its storage listener, and how many writes of the store have
                         \* been announced to that window

ctxVars == <<web3, account, OriginContract, DestinationContract, MaticContract>>
syncVars == <<loanDetails, collateralStatus, loanAmount, isProcessing, pulls, deposit,
              numberFormat, txCount, ledger, statusSrc, detailsSrc, lastStarted>>
scanVars == <<atRiskLoans, loading, processingLoan, scans, lastScan, lastCallback>>
chainVars == <<chainId, liveChain>>
\* what only the handlers of the page and of the other tabs change
pageVars == <<isLoading, switches, chainEvents, boundBefore>>
requestVars == <<isModalOpen, isSubmitting, request>>
repayVars == <<repayAmount, activeLoans, repayLoading, loads, repay, lastRepay>>
quoteVars == <<estimatedCollateral, estimates, estimatedFor, maticPrice, ethPrice,
               priceError, priceCalls>>
accountVars == <<transactions, listener>>
extVars == <<pageVars, requestVars, repayVars, liquidations, quoteVars, accountVars>>
vars == <<ctxVars, syncVars, scanVars, chainVars, extVars>>


(***************************************************************************)
(* Values.                                                                 *)
(***************************************************************************)
NULL == "null"
Accounts == {"a1"}
ChainIds == {SEPOLIA_CHAIN_ID, BASE_SEPOLIA_CHAIN_ID}
NumberFormats == {"string", "bigint"}

\* A uint256 as JavaScript holds it: its numeric value and the type of the
\* primitive that carries it.  The '0' of the source is Str(0).
Str(n) == [fmt |-> "string", val |-> n]
Decode(n) == [fmt |-> numberFormat, val |-> n]
\* a !== b on two such primitives: equal only when type and value agree.
StrictNotEqual(a, b) == ~(a.fmt = b.fmt /\ a.val = b.val)
\* Number(x)
ToNumber(x) == x.val
\* String(x)
StringOf(x) == Str(x.val)
\* Number(web3.utils.fromWei(x, 'ether')): x / 10^18, kept as the numerator x.
FromWeiNumber(x) == x.val

\* The results getLoanDetails(account) of the origin contract may return, in
\* the contract's positional order (collateral, loanAmount, destChain, rate,
\* score, duration, active).
NoRecord == <<>>
Requested == <<0, 100, 84532, 500, 700, 30, FALSE>>
Collateralized == <<150, 100, 84532, 500, 700, 30, TRUE>>
ActiveNoCollateral == <<0, 100, 84532, 500, 700, 30, TRUE>>
PartlyFunded == <<300, 200, 84532, 650, 720, 60, FALSE>>
RawRecords == {Requested, Collateralized, ActiveNoCollateral, PartlyFunded}

\* The result as the RPC layer hands it over: the two amounts the client keeps
\* unconverted carry the number format.
DecodeLoanDetails(raw) ==
    <<Decode(raw[1]), Decode(raw[2]), raw[3], raw[4], raw[5], raw[6], raw[7]>>

NullDetails == [isNull |-> TRUE]

ParseLoanDetails(details) ==
    [collateralAmount |-> details[1],
     loanAmount       |-> details[2],
     destinationChain |-> details[3],
     interestRate     |-> details[4],
     creditScore      |-> details[5],
     duration         |-> details[6],
     active           |-> details[7]]

\* Faulty variant of setLoanDetails: a setter that keeps the old value of a field whose new value is
\* falsy: a field-by-field merge instead of a replacement.
setLoanDetailsMerging(old, parsedDetails) ==
    IF old = NullDetails
    THEN parsedDetails
    ELSE [parsedDetails EXCEPT
              !.collateralAmount = IF parsedDetails.collateralAmount.val = 0
                                   THEN old.collateralAmount
                                   ELSE parsedDetails.collateralAmount,
              !.active = parsedDetails.active \/ old.active]

\* setLoanDetails(parsedDetails): the context's record is replaced.
setLoanDetails(old, parsedDetails) == parsedDetails

\* the contract's calculateRequiredCollateral(loanAmount)
calculateRequiredCollateral(amount) == (amount * COLLATERALIZATION_RATIO) \div 100

\* Faulty variant of RequiredCollateralArg: the collateral instead of the loan
RequiredCollateralArgCollateral(parsedDetails) == parsedDetails.collateralAmount

\* the argument fetchLoanDetails passes to calculateRequiredCollateral
RequiredCollateralArg(parsedDetails) == parsedDetails.loanAmount

\* the three branches of fetchLoanDetails
NeedsCollateral(parsedDetails) ==
    ~parsedDetails.active /\ StrictNotEqual(parsedDetails.collateralAmount, Str(0))
IsCollateralized(parsedDetails) ==
    parsedDetails.active /\ StrictNotEqual(parsedDetails.collateralAmount, Str(0))

FullyCollateralized == [isFullyCollateralized |-> TRUE, requiredCollateral |-> Str(0)]
NotCollateralized(required) ==
    [isFullyCollateralized |-> FALSE, requiredCollateral |-> required]

\* loanDetails?.active
IsActive(d) == d # NullDetails /\ d.active

canDepositCollateral ==
    ~isProcessing /\ ~IsActive(loanDetails) /\ ~collateralStatus.isFullyCollateralized

\* the guard of fetchLoanDetails and of handleDepositCollateral
Connected(origin, acct, w3) == origin # NULL /\ acct # "" /\ w3 # NULL

\* Faulty variant of saveTransaction: a store that keeps the latest entry only
saveTransactionLatestOnly(store, tx) == <<[tx EXCEPT !.id = 1]>>

\* Faulty variant of saveTransaction: a store that keeps the oldest first
saveTransactionAtEnd(store, tx) == store \o <<[tx EXCEPT !.id = Len(store) + 1]>>

\* TransactionStore.saveTransaction: the store keeps the most recent first.
saveTransaction(store, tx) == <<[tx EXCEPT !.id = Len(store) + 1]>> \o store

\* A handler run between its awaits: sends counts the send() calls the run has
\* made, one per run in each of the four handlers.
IdleDeposit == [pc |-> "idle", value |-> Str(0), sends |-> 0]
PullIds == DOMAIN pulls
\* a sequence without its i-th element
RemoveAt(seq, i) == SubSeq(seq, 1, i - 1) \o SubSeq(seq, i + 1, Len(seq))

(***************************************************************************)
(* The Borrow tab.                                                         *)
(***************************************************************************)
\* fetchLoanDetails up to its first await: the guard (connected: whether
\* OriginContract, account and web3 are all set in the closure that runs),
\* then the getLoanDetails call goes out.  The node answers with the record
\* raw that the chain holds for the account at that moment; the answer is
\* delivered by GetLoanDetailsReturn.  A pull that starts while an older one
\* is in flight with another record is the newer pull of an overlapping pair.
NoOverlap == [snap |-> NoRecord, fin |-> "none"]

fetchLoanDetails(connected, caller, raw) ==
    IF connected
    THEN /\ Len(pulls) < MaxPulls
         /\ pulls' = Append(pulls, [pc |-> "getLoanDetails", snap |-> raw,
                                    caller |-> caller])
         /\ lastStarted' = IF \E q \in PullIds : pulls[q].snap # raw
                           THEN [snap |-> raw, fin |-> "inflight"]
                           ELSE NoOverlap
    ELSE UNCHANGED <<pulls, lastStarted>>

\* The end of a fetchLoanDetails invocation (normal or through its catch),
\* and with it the finally block of a handleDepositCollateral that awaited it.
FinishPull(p, outcome) ==
    /\ pulls' = RemoveAt(pulls, p)
    /\ lastStarted' = IF p = Len(pulls) /\ lastStarted.fin = "inflight"
                      THEN [lastStarted EXCEPT !.fin = outcome]
                      ELSE lastStarted
    /\ IF pulls[p].caller = "deposit"
       THEN isProcessing' = FALSE /\ deposit' = IdleDeposit
       ELSE UNCHANGED <<isProcessing, deposit>>

\* getLoanDetails answers: parse, store the record, derive the status.
GetLoanDetailsReturn(p) ==
    /\ pulls[p].pc = "getLoanDetails"
    /\ LET details == DecodeLoanDetails(pulls[p].snap)
           parsedDetails == ParseLoanDetails(details)
       IN /\ loanDetails' = setLoanDetails(loanDetails, parsedDetails)
          /\ detailsSrc' = pulls[p].snap
          /\ IF NeedsCollateral(parsedDetails)
             THEN /\ pulls' = [pulls EXCEPT ![p].pc = "calculateRequiredCollateral"]
                  /\ UNCHANGED <<collateralStatus, loanAmount, statusSrc, lastStarted,
                                 isProcessing, deposit>>
             ELSE /\ IF IsCollateralized(parsedDetails)
                     THEN /\ collateralStatus' = FullyCollateralized
                          /\ loanAmount' = FromWeiNumber(parsedDetails.loanAmount)
                     ELSE /\ collateralStatus' = NotCollateralized(Str(0))
                          /\ loanAmount' = 0
                  /\ statusSrc' = [by |-> "pull", raw |-> pulls[p].snap]
                  /\ FinishPull(p, "ok")
    /\ UNCHANGED <<chainVars, extVars, ctxVars, numberFormat, txCount, ledger, scanVars>>

\* getLoanDetails throws: the catch logs, nothing is stored.
GetLoanDetailsFail(p) ==
    /\ pulls[p].pc = "getLoanDetails"
    /\ FinishPull(p, "failed")
    /\ UNCHANGED <<chainVars, extVars, ctxVars, loanDetails, collateralStatus, loanAmount, numberFormat, txCount, ledger, statusSrc, detailsSrc, scanVars>>

\* calculateRequiredCollateral answers.
CalculateRequiredReturn(p) ==
    /\ pulls[p].pc = "calculateRequiredCollateral"
    /\ LET parsedDetails == ParseLoanDetails(DecodeLoanDetails(pulls[p].snap))
           required == Decode(calculateRequiredCollateral(
                                  ToNumber(RequiredCollateralArg(parsedDetails))))
       IN /\ collateralStatus' = NotCollateralized(StringOf(required))
          /\ loanAmount' = FromWeiNumber(parsedDetails.loanAmount)
    /\ statusSrc' = [by |-> "pull", raw |-> pulls[p].snap]
    /\ FinishPull(p, "ok")
    /\ UNCHANGED <<chainVars, extVars, ctxVars, loanDetails, numberFormat, txCount, ledger,
                   detailsSrc, scanVars>>

\* calculateRequiredCollateral throws: the record is stored already, the
\* status is not touched.
CalculateRequiredFail(p) ==
    /\ pulls[p].pc = "calculateRequiredCollateral"
    /\ FinishPull(p, "failed")
    /\ UNCHANGED <<chainVars, extVars, ctxVars, loanDetails, collateralStatus, loanAmount, numberFormat, txCount, ledger, statusSrc, detailsSrc, scanVars>>

\* The Deposit Collateral button: the handler up to its await of send().  The
\* page under the open dialog takes no clicks.
handleDepositCollateral ==
    /\ deposit.pc = "idle"
    /\ ~isModalOpen
    /\ canDepositCollateral
    /\ Connected(OriginContract, account, web3)
    /\ ~collateralStatus.isFullyCollateralized
    /\ txCount < MaxTx
    /\ isProcessing' = TRUE
    /\ deposit' = [pc |-> "send", value |-> collateralStatus.requiredCollateral, sends |-> 1]
    /\ UNCHANGED <<chainVars, extVars, ctxVars, loanDetails, collateralStatus, loanAmount, pulls, numberFormat, txCount, ledger, statusSrc, detailsSrc, lastStarted,
                   scanVars>>

\* send() resolves: the transaction is mined, the handler saves it, sets the
\* status and awaits a pull, which its closure's values let pass the guard;
\* raw is the record the chain holds when that pull's call goes out.
DepositSendReturn(raw) ==
    /\ deposit.pc = "send"
    /\ txCount' = txCount + 1
    /\ ledger' = saveTransaction(ledger, [id |-> 0, chain |-> "sepolia",
                                          type |-> "Deposit Collateral",
                                          amount |-> FromWeiNumber(deposit.value),
                                          token |-> "ETH", status |-> "completed",
                                          txHash |-> txCount + 1])
    /\ collateralStatus' = FullyCollateralized
    /\ statusSrc' = [by |-> "deposit", raw |-> NoRecord]
    /\ deposit' = [deposit EXCEPT !.pc = "fetchLoanDetails"]
    /\ fetchLoanDetails(TRUE, "deposit", raw)
    /\ UNCHANGED <<chainVars, extVars, ctxVars, loanDetails, loanAmount, isProcessing, numberFormat,
                   detailsSrc, scanVars>>

\* Faulty variant of DepositSendFail: a catch that also puts the status and
\* the amount back to their initial values
DepositSendFailResetting ==
    /\ deposit.pc = "send"
    /\ isProcessing' = FALSE
    /\ deposit' = IdleDeposit
    /\ collateralStatus' = NotCollateralized(Str(0))
    /\ loanAmount' = 0
    /\ UNCHANGED <<chainVars, extVars, ctxVars, loanDetails, pulls, numberFormat, txCount,
                   ledger, statusSrc, detailsSrc, lastStarted, scanVars>>

\* send() rejects (the user or the node refuses): catch logs, finally clears
\* the busy flag.
DepositSendFail ==
    /\ deposit.pc = "send"
    /\ isProcessing' = FALSE
    /\ deposit' = IdleDeposit
    /\ UNCHANGED <<chainVars, extVars, ctxVars, loanDetails, collateralStatus, loanAmount, pulls, numberFormat, txCount, ledger, statusSrc, detailsSrc, lastStarted,
                   scanVars>>

\* The effect of the Borrow tab that pulls on [account, OriginContract, web3].
\* handleAccountsChanged / connectWallet: setAccount.
AccountsChangedOnBorrowTab(acct, raw) ==
    /\ web3 # NULL
    /\ acct # account
    /\ account' = acct
    /\ fetchLoanDetails(Connected(OriginContract, acct, web3), "effect", raw)
    /\ UNCHANGED <<chainVars, extVars, web3, OriginContract, DestinationContract, MaticContract, loanDetails,
                   collateralStatus, loanAmount, isProcessing, deposit, numberFormat, txCount, ledger, statusSrc, detailsSrc, scanVars>>

\* initializeContracts(web3Instance, currentChainId): the three handles are
\* cleared and the ones of the chain are set, in one render.
\* a binding that keeps the origin handle it had when the chain is another one
OriginForKeeping(currentChainId) ==
    IF currentChainId = SEPOLIA_CHAIN_ID THEN "origin" ELSE OriginContract
\* a binding that takes every chain but the origin chain for the destination chain
DestinationForOthers(currentChainId) ==
    IF currentChainId # SEPOLIA_CHAIN_ID THEN "destination" ELSE NULL
\* a binding that sets the token handle on the origin chain
MaticForOrigin(currentChainId) ==
    IF currentChainId = SEPOLIA_CHAIN_ID THEN "matic" ELSE NULL
OriginFor(currentChainId) == IF currentChainId = SEPOLIA_CHAIN_ID THEN "origin" ELSE NULL
DestinationFor(currentChainId) == IF currentChainId = BASE_SEPOLIA_CHAIN_ID THEN "destination" ELSE NULL
MaticFor(currentChainId) == IF currentChainId = BASE_SEPOLIA_CHAIN_ID THEN "matic" ELSE NULL

initializeContracts(currentChainId) ==
    /\ MaticContract' = MaticFor(currentChainId)
    /\ DestinationContract' = DestinationFor(currentChainId)
    /\ OriginContract' = OriginFor(currentChainId)

\* handleChainChanged / connectWallet / switchNetwork reach initializeContracts;
\* a new origin handle makes the Borrow tab's effect pull.
ChainChangedOnBorrowTab(currentChainId, raw) ==
    /\ web3 # NULL
    /\ initializeContracts(currentChainId)
    /\ IF OriginFor(currentChainId) # NULL
       THEN fetchLoanDetails(Connected(OriginFor(currentChainId), account, web3), "effect", raw)
       ELSE UNCHANGED <<pulls, lastStarted>>
    /\ chainId' = currentChainId
    /\ liveChain' = currentChainId
    /\ UNCHANGED <<extVars, web3, account, loanDetails, collateralStatus, loanAmount, isProcessing,
                   deposit, numberFormat, txCount, ledger, statusSrc,
                   detailsSrc, scanVars>>

\* The mount effect of App: the wallet is there, setWeb3(web3Instance).
Mount ==
    /\ web3 = NULL
    /\ web3' = "instance"
    /\ UNCHANGED <<chainVars, extVars, account, OriginContract, DestinationContract, MaticContract, syncVars,
                   scanVars>>

(***************************************************************************)
(* LiquidationsTab: loadAtRiskLoans, the liquidation scan.                 *)
(*                                                                         *)
(* The destination chain is the environment: what getPastLogs,             *)
(* getLoanDetails(borrower), calculateTotalDue(borrower) and Date.now()    *)
(* return are inputs of the continuation that receives them.               *)
(***************************************************************************)
Borrowers == {"b1", "b2"}

\* The borrowers of the LoanRequested entries getPastLogs returns, oldest
\* first: b1 alone, requesting again and again, or b1 and b2 taking turns.
BorrowerLists(n) ==
    {[i \in 1..n |-> "b1"], [i \in 1..n |-> IF i % 2 = 1 THEN "b1" ELSE "b2"]}

\* the amount a LoanRequested entry carries: what was asked for then, which
\* is not the amount of the loan the borrower has now
EventAmounts == {70}

\* a log entry: its borrower and amount, and wellFormed: decodeParameter and
\* decodeLog accept its topics and data
LogsOf(borrowers) ==
    {[i \in DOMAIN borrowers |-> [borrower |-> borrowers[i], amount |-> amt,
                                  wellFormed |-> ok[i]]] :
        ok \in [DOMAIN borrowers -> BOOLEAN], amt \in EventAmounts}

\* what getPastLogs may return
EventLists ==
    UNION {LogsOf(borrowers) : borrowers \in UNION {BorrowerLists(n) : n \in 0..MaxEvents}}

\* the destination getLoanDetails result, in the contract's order:
\* <<amount, repaidAmount, interestRate, dueDate, creditScore, active, funded>>
FundedLoan == <<100, 0, 500, 2, 700, TRUE, TRUE>>
UnfundedLoan == <<100, 0, 500, 2, 700, TRUE, FALSE>>
RepaidLoan == <<100, 100, 500, 2, 700, FALSE, TRUE>>
DestRecords == {FundedLoan, UnfundedLoan, RepaidLoan}

\* Date.now() around the due instant of these loans, milliseconds
NowValues == {FundedLoan[4] * MS_PER_SECOND + k : k \in {-1, 0, 1}}

\* what calculateTotalDue may return for a funded loan
TotalDues == {105}

\* Faulty variant of IsOverdue: overdue from the due instant on
IsOverdueInclusive(nowMs, dueDate) == nowMs >= dueDate * MS_PER_SECOND

\* const isOverdue = Date.now() > (dueDate * 1000)
IsOverdue(nowMs, dueDate) == nowMs > dueDate * MS_PER_SECOND

\* the Loan object a callback returns for an overdue loan
AtRiskLoan(borrower, rec, totalDue) ==
    [id |-> borrower, borrower |-> borrower, amount |-> rec[1],
     repaidAmount |-> rec[2], totalDue |-> totalDue,
     liquidationPrice |-> "Overdue", active |-> rec[6], funded |-> rec[7]]

\* the null a callback returns for a loan that is not at risk
NullLoan == [isNull |-> TRUE]

NewTask(event) ==
    [borrower |-> event.borrower, requested |-> event.amount, pc |-> "getLoanDetails",
     loanDetails |-> NoRecord, result |-> NullLoan]

NoScan == [outcome |-> "none", cause |-> "none", entries |-> <<>>, place |-> 0]
NoCallback == [returned |-> FALSE]

\* the step ended no scan and returned from no callback
NothingEnded == lastScan' = NoScan /\ lastCallback' = NoCallback

ScanIds == DOMAIN scans

\* log entries the scans in flight are looking up
RECURSIVE TasksInFlight(_)
TasksInFlight(ss) ==
    IF ss = <<>> THEN 0 ELSE Len(Head(ss).tasks) + TasksInFlight(Tail(ss))

\* Faulty variant of FilterLoans: one position for a borrower, however many
\* of the entries are theirs
RECURSIVE FilterLoansUnique(_)
FilterLoansUnique(tasks) ==
    IF tasks = <<>> THEN <<>>
    ELSE LET rest == FilterLoansUnique(Tail(tasks))
         IN  IF \/ Head(tasks).result = NullLoan
                \/ \E k \in DOMAIN rest : rest[k].borrower = Head(tasks).borrower
             THEN rest
             ELSE <<Head(tasks).result>> \o rest

\* atRiskLoansData.filter(isLoan)
RECURSIVE FilterLoans(_)
FilterLoans(tasks) ==
    IF tasks = <<>> THEN <<>>
    ELSE IF Head(tasks).result = NullLoan THEN FilterLoans(Tail(tasks))
    ELSE <<Head(tasks).result>> \o FilterLoans(Tail(tasks))

\* loadAtRiskLoans up to its first await: the guard, setLoading(true), the
\* getPastLogs request.  The early return passes through finally.
loadAtRiskLoans(acct, dest, w3) ==
    IF acct = "" \/ dest = NULL \/ w3 = NULL
    THEN loading' = FALSE /\ UNCHANGED scans
    ELSE /\ Len(scans) < MaxEvents
         /\ scans' = Append(scans, [pc |-> "getPastLogs", tasks |-> <<>>])
         /\ loading' = TRUE

\* the catch and finally of loadAtRiskLoans: toast, setLoading(false); the
\* callbacks still running have nothing left to write.
AbortScan(s, cause) ==
    /\ scans' = RemoveAt(scans, s)
    /\ loading' = FALSE
    /\ lastScan' = [outcome |-> "failed", cause |-> cause, entries |-> <<>>, place |-> s]
    /\ lastCallback' = NoCallback
    /\ UNCHANGED atRiskLoans

\* Faulty variant of PublishScan: the positions are added to the ones shown
PublishScanAdding(s, tasks) ==
    /\ atRiskLoans' = atRiskLoans \o FilterLoans(tasks)
    /\ scans' = RemoveAt(scans, s)
    /\ loading' = FALSE
    /\ lastScan' = [outcome |-> "published", cause |-> "none", entries |-> tasks,
                    place |-> s]

\* Promise.all resolved: setAtRiskLoans(atRiskLoansData.filter(isLoan)), finally
PublishScan(s, tasks) ==
    /\ atRiskLoans' = FilterLoans(tasks)
    /\ scans' = RemoveAt(scans, s)
    /\ loading' = FALSE
    /\ lastScan' = [outcome |-> "published", cause |-> "none", entries |-> tasks,
                    place |-> s]

\* a callback of the Promise.all has returned result, having read rec and, if
\* it came that far, the clock at nowMs: the scan goes on waiting, or this
\* was the last callback
TaskDone(s, i, rec, nowMs, result) ==
    LET task == [scans[s].tasks[i] EXCEPT
                     !.pc = "done", !.loanDetails = NoRecord, !.result = result]
        tasks == [scans[s].tasks EXCEPT ![i] = task]
    IN  /\ lastCallback' = [returned |-> TRUE, borrower |-> task.borrower,
                            loanDetails |-> rec, at |-> nowMs, result |-> result]
        /\ IF \A k \in DOMAIN tasks : tasks[k].pc = "done"
           THEN PublishScan(s, tasks)
           ELSE /\ scans' = [scans EXCEPT ![s].tasks = tasks]
                /\ lastScan' = NoScan
                /\ UNCHANGED <<atRiskLoans, loading>>

\* getPastLogs answers: events.map decodes every entry (a throw of the
\* decoder leaves the map), then one callback per decoded event is started.
GetPastLogsReturn(s, events) ==
    /\ scans[s].pc = "getPastLogs"
    /\ TasksInFlight(scans) + Len(events) <= MaxEvents
    /\ IF \E i \in DOMAIN events : ~events[i].wellFormed
       THEN AbortScan(s, "decode")
       ELSE IF events = <<>>
       THEN PublishScan(s, <<>>) /\ lastCallback' = NoCallback
       ELSE /\ scans' = [scans EXCEPT ![s] =
                            [pc |-> "checking",
                             tasks |-> [i \in DOMAIN events |-> NewTask(events[i])]]]
            /\ NothingEnded
            /\ UNCHANGED <<atRiskLoans, loading>>
    /\ UNCHANGED <<chainVars, extVars, ctxVars, syncVars, processingLoan>>

\* Faulty variant of GetPastLogsFail: a catch that also clears the loan record
\* the Borrow tab shows
GetPastLogsFailClearing(s) ==
    /\ scans[s].pc = "getPastLogs"
    /\ AbortScan(s, "getPastLogs")
    /\ loanDetails' = NullDetails
    /\ UNCHANGED <<chainVars, extVars, ctxVars, collateralStatus, loanAmount, isProcessing,
                   pulls, deposit, numberFormat, txCount, ledger, statusSrc, detailsSrc,
                   lastStarted, processingLoan>>

GetPastLogsFail(s) ==
    /\ scans[s].pc = "getPastLogs"
    /\ AbortScan(s, "getPastLogs")
    /\ UNCHANGED <<chainVars, extVars, ctxVars, syncVars, processingLoan>>

\* getLoanDetails(borrower) answers a callback
TaskLoanDetailsReturn(s, i, rec) ==
    /\ scans[s].pc = "checking"
    /\ scans[s].tasks[i].pc = "getLoanDetails"
    /\ LET active == rec[6]
           funded == rec[7]
       IN  IF active /\ funded
           THEN /\ scans' = [scans EXCEPT ![s].tasks[i].pc = "calculateTotalDue",
                                          ![s].tasks[i].loanDetails = rec]
                /\ NothingEnded
                /\ UNCHANGED <<atRiskLoans, loading>>
           ELSE TaskDone(s, i, rec, 0, NullLoan)
    /\ UNCHANGED <<chainVars, extVars, ctxVars, syncVars, processingLoan>>

\* getLoanDetails(borrower) throws: Promise.all rejects
TaskLoanDetailsFail(s, i) ==
    /\ scans[s].pc = "checking"
    /\ scans[s].tasks[i].pc = "getLoanDetails"
    /\ AbortScan(s, "lookup")
    /\ UNCHANGED <<chainVars, extVars, ctxVars, syncVars, processingLoan>>

\* calculateTotalDue(borrower) answers a callback: the overdue test
TaskTotalDueReturn(s, i, totalDue, nowMs) ==
    /\ scans[s].pc = "checking"
    /\ scans[s].tasks[i].pc = "calculateTotalDue"
    /\ LET task == scans[s].tasks[i]
           dueDate == task.loanDetails[4]
           isOverdue == IsOverdue(nowMs, dueDate)
       IN  TaskDone(s, i, task.loanDetails, nowMs,
                    IF isOverdue
                    THEN AtRiskLoan(task.borrower, task.loanDetails, totalDue)
                    ELSE NullLoan)
    /\ UNCHANGED <<chainVars, extVars, ctxVars, syncVars, processingLoan>>

TaskTotalDueFail(s, i) ==
    /\ scans[s].pc = "checking"
    /\ scans[s].tasks[i].pc = "calculateTotalDue"
    /\ AbortScan(s, "lookup")
    /\ UNCHANGED <<chainVars, extVars, ctxVars, syncVars, processingLoan>>

\* The effect of the Liquidations tab, [account, DestinationContract]
AccountsChangedOnLiquidationsTab(acct) ==
    /\ web3 # NULL
    /\ acct # account
    /\ account' = acct
    /\ IF acct # "" /\ DestinationContract # NULL
       THEN loadAtRiskLoans(acct, DestinationContract, web3)
       ELSE UNCHANGED <<scans, loading>>
    /\ NothingEnded
    /\ UNCHANGED <<chainVars, extVars, web3, OriginContract, DestinationContract, MaticContract, syncVars,
                   atRiskLoans, processingLoan>>

ChainChangedOnLiquidationsTab(currentChainId) ==
    /\ web3 # NULL
    /\ initializeContracts(currentChainId)
    /\ IF account # "" /\ DestinationFor(currentChainId) # NULL
       THEN loadAtRiskLoans(account, DestinationFor(currentChainId), web3)
       ELSE UNCHANGED <<scans, loading>>
    /\ NothingEnded
    /\ chainId' = currentChainId
    /\ liveChain' = currentChainId
    /\ UNCHANGED <<extVars, web3, account, syncVars, atRiskLoans, processingLoan>>

(***************************************************************************)
(* App (the page): the wallet's chain, connectWallet, switchNetwork and    *)
(* the chainChanged listener.                                              *)
(***************************************************************************)
\* The chains a wallet can be on: the two supported ones and one the page
\* does not know (Ethereum mainnet, chain id 1).
WalletChains == ChainIds \cup {1}
\* eth_requestAccounts / getAccounts answer with the wallet's accounts; ""
\* stands for the empty list.
AccountAnswers == Accounts \cup {""}
SwitchIds == DOMAIN switches

\* The mount effect of App: connectWallet() runs up to its await of
\* eth_requestAccounts, setWeb3, getChainId() and getAccounts() go out, the
\* listeners are registered.  The wallet answers getChainId with the chain it
\* is on when the call goes out.
MountApp ==
    /\ web3 = NULL
    /\ web3' = "instance"
    /\ isLoading' = TRUE
    /\ switches' = <<[kind |-> "connectWallet", pc |-> "requestAccounts", chain |-> liveChain],
                     [kind |-> "mount", pc |-> "getChainId", chain |-> liveChain],
                     [kind |-> "mount", pc |-> "getAccounts", chain |-> liveChain]>>
    /\ UNCHANGED <<account, OriginContract, DestinationContract, MaticContract,
                   syncVars, scanVars, chainVars, chainEvents, boundBefore, requestVars, repayVars, liquidations, accountVars, quoteVars>>

\* The Connect Wallet button (disabled while isLoading).
connectWallet ==
    /\ web3 # NULL
    /\ ~isLoading
    /\ Len(switches) < MaxSwitches
    /\ isLoading' = TRUE
    /\ switches' = Append(switches, [kind |-> "connectWallet", pc |-> "requestAccounts",
                                     chain |-> liveChain])
    /\ UNCHANGED <<ctxVars, syncVars, scanVars, chainVars, chainEvents, boundBefore, requestVars, repayVars, liquidations, accountVars, quoteVars>>

\* eth_requestAccounts resolves: setAccount(accounts[0]) and getChainId goes
\* out; with no account the handler ends through its finally.
RequestAccountsReturn(i, acct) ==
    /\ switches[i].pc = "requestAccounts"
    /\ IF acct # ""
       THEN /\ account' = acct
            /\ switches' = [switches EXCEPT ![i] = [@ EXCEPT !.pc = "getChainId",
                                                             !.chain = liveChain]]
            /\ UNCHANGED isLoading
       ELSE /\ switches' = RemoveAt(switches, i)
            /\ isLoading' = FALSE
            /\ UNCHANGED account
    /\ UNCHANGED <<web3, OriginContract, DestinationContract, MaticContract,
                   syncVars, scanVars, chainVars, chainEvents, boundBefore, requestVars, repayVars, liquidations, accountVars, quoteVars>>

\* eth_requestAccounts rejects: catch sets the error, finally clears isLoading.
RequestAccountsFail(i) ==
    /\ switches[i].pc = "requestAccounts"
    /\ switches' = RemoveAt(switches, i)
    /\ isLoading' = FALSE
    /\ UNCHANGED <<ctxVars, syncVars, scanVars, chainVars, chainEvents, boundBefore, requestVars, repayVars, liquidations, accountVars, quoteVars>>

\* getAccounts().then of the mount effect: setAccount(accounts[0]); what
\* follows only updates the balances.
GetAccountsReturn(i, acct) ==
    /\ switches[i].pc = "getAccounts"
    /\ account' = IF acct # "" THEN acct ELSE account
    /\ switches' = RemoveAt(switches, i)
    /\ UNCHANGED <<web3, OriginContract, DestinationContract, MaticContract,
                   syncVars, scanVars, chainVars, isLoading, chainEvents, boundBefore, requestVars, repayVars, liquidations, accountVars, quoteVars>>

GetAccountsFail(i) ==
    /\ switches[i].pc = "getAccounts"
    /\ switches' = RemoveAt(switches, i)
    /\ UNCHANGED <<ctxVars, syncVars, scanVars, chainVars, isLoading, chainEvents, boundBefore, requestVars, repayVars, liquidations, accountVars, quoteVars>>

\* The network selector: switchNetwork(networkName) up to its await of
\* wallet_switchEthereumChain.
switchNetwork(network) ==
    /\ web3 # NULL
    /\ Len(switches) < MaxSwitches
    /\ isLoading' = TRUE
    /\ switches' = Append(switches, [kind |-> "switchNetwork", pc |-> "walletSwitch",
                                     chain |-> network])
    /\ UNCHANGED <<ctxVars, syncVars, scanVars, chainVars, chainEvents, boundBefore, requestVars, repayVars, liquidations, accountVars, quoteVars>>

\* The wallet emits chainChanged to the listener the mount effect registered.
EmitChainChanged(from, to) ==
    IF from # to /\ web3 # NULL
    THEN chainEvents' = Append(chainEvents, to)
    ELSE UNCHANGED chainEvents

\* The wallet carries out wallet_switchEthereumChain (or, after error 4902,
\* wallet_addEthereumChain): it moves to the chain and emits chainChanged.
WalletSwitchesChain(i) ==
    /\ switches[i].pc = "walletSwitch"
    /\ Len(chainEvents) < MaxSwitches
    /\ liveChain' = switches[i].chain
    /\ EmitChainChanged(liveChain, switches[i].chain)
    /\ switches' = [switches EXCEPT ![i] = [@ EXCEPT !.pc = "switched"]]
    /\ UNCHANGED <<ctxVars, syncVars, scanVars, chainId, isLoading, boundBefore, requestVars, repayVars, liquidations, accountVars, quoteVars>>

\* The request resolves: setWeb3(new Web3(window.ethereum)) and getChainId
\* goes out.
SwitchEthereumChainReturn(i) ==
    /\ switches[i].pc = "switched"
    /\ web3' = "instance"
    /\ switches' = [switches EXCEPT ![i] = [@ EXCEPT !.pc = "getChainId",
                                                     !.chain = liveChain]]
    /\ UNCHANGED <<account, OriginContract, DestinationContract, MaticContract,
                   syncVars, scanVars, chainVars, isLoading, chainEvents, boundBefore, requestVars, repayVars, liquidations, accountVars, quoteVars>>

\* The user refuses the switch: catch sets the error, finally clears isLoading.
SwitchEthereumChainFail(i) ==
    /\ switches[i].pc = "walletSwitch"
    /\ switches' = RemoveAt(switches, i)
    /\ isLoading' = FALSE
    /\ UNCHANGED <<ctxVars, syncVars, scanVars, chainVars, chainEvents, boundBefore, requestVars, repayVars, liquidations, accountVars, quoteVars>>

\* getChainId resolves in connectWallet, switchNetwork or the mount effect:
\* setChainId, initializeContracts; connectWallet and switchNetwork end
\* through their finally (what is left only updates the balances).
GetChainIdReturn(i) ==
    /\ switches[i].pc = "getChainId"
    /\ chainId' = switches[i].chain
    /\ initializeContracts(switches[i].chain)
    /\ boundBefore' = <<OriginContract, DestinationContract, MaticContract>>
    /\ isLoading' = IF switches[i].kind = "mount" THEN isLoading ELSE FALSE
    /\ switches' = RemoveAt(switches, i)
    /\ UNCHANGED <<web3, account, syncVars, scanVars, liveChain, chainEvents, requestVars, repayVars, liquidations, accountVars, quoteVars>>

GetChainIdFail(i) ==
    /\ switches[i].pc = "getChainId"
    /\ isLoading' = IF switches[i].kind = "mount" THEN isLoading ELSE FALSE
    /\ switches' = RemoveAt(switches, i)
    /\ UNCHANGED <<ctxVars, syncVars, scanVars, chainVars, chainEvents, boundBefore, requestVars, repayVars, liquidations, accountVars, quoteVars>>

\* The user changes the network in the wallet.
WalletChainChanged(to) ==
    /\ to # liveChain
    /\ Len(chainEvents) < MaxSwitches
    /\ liveChain' = to
    /\ EmitChainChanged(liveChain, to)
    /\ UNCHANGED <<ctxVars, syncVars, scanVars, chainId, isLoading, switches, boundBefore, requestVars, repayVars, liquidations, accountVars, quoteVars>>

\* handleChainChanged(newChainId): setChainId and initializeContracts with the
\* chain id the event carries.
handleChainChanged ==
    /\ chainEvents # <<>>
    /\ chainId' = Head(chainEvents)
    /\ initializeContracts(Head(chainEvents))
    /\ boundBefore' = <<OriginContract, DestinationContract, MaticContract>>
    /\ chainEvents' = Tail(chainEvents)
    /\ UNCHANGED <<web3, account, syncVars, scanVars, liveChain, isLoading, switches, requestVars, repayVars, liquidations, accountVars, quoteVars>>

(***************************************************************************)
(* The loan request: the amount field and the Request Loan button of the   *)
(* Borrow tab, and handleConfirm of LoanRequestModal.                      *)
(***************************************************************************)
\* what the user types into the amount field (as loanAmount is kept)
LoanAmounts == {0, 100}
IdleRequest == [pc |-> "idle", chain |-> 0, amount |-> 0, sends |-> 0]

\* onChange of the amount field (disabled while the loan is active)
onLoanAmountChange(amount) ==
    /\ web3 # NULL
    /\ ~IsActive(loanDetails)
    /\ amount # loanAmount
    /\ loanAmount' = amount
    /\ UNCHANGED <<ctxVars, loanDetails, collateralStatus, isProcessing, pulls, deposit,
                   numberFormat, txCount, ledger, statusSrc, detailsSrc, lastStarted,
                   scanVars, chainVars, extVars>>

canRequestLoan == ~isProcessing /\ loanAmount > 0 /\ ~IsActive(loanDetails)

\* The Request Loan button: the modal opens.
handleLoanRequest ==
    /\ canRequestLoan
    /\ ~isModalOpen
    /\ isModalOpen' = TRUE
    /\ UNCHANGED <<ctxVars, syncVars, scanVars, chainVars, pageVars, repayVars, liquidations, accountVars, quoteVars, isSubmitting, request>>

\* onClose of the modal (Cancel, or the dialog is dismissed)
onClose ==
    /\ isModalOpen
    /\ isModalOpen' = FALSE
    /\ UNCHANGED <<ctxVars, syncVars, scanVars, chainVars, pageVars, repayVars, liquidations, accountVars, quoteVars, isSubmitting, request>>

\* The Confirm button (disabled while isSubmitting or isProcessing):
\* handleConfirm up to its await of send().  The handle talks to the provider
\* of the wallet, so the transaction goes to the chain the wallet is on.
handleConfirm ==
    /\ isModalOpen
    /\ ~isSubmitting
    /\ ~isProcessing
    /\ OriginContract # NULL
    /\ account # ""
    /\ txCount < MaxTx
    /\ isSubmitting' = TRUE
    /\ request' = [pc |-> "send", chain |-> liveChain, amount |-> loanAmount, sends |-> 1]
    /\ UNCHANGED <<ctxVars, syncVars, scanVars, chainVars, pageVars, repayVars, liquidations, accountVars, quoteVars, isModalOpen>>

\* send() resolves: the transaction is saved, the modal closes.
RequestLoanReturn ==
    /\ request.pc = "send"
    /\ txCount' = txCount + 1
    /\ ledger' = saveTransaction(ledger, [id |-> 0, chain |-> "sepolia",
                                          type |-> "Borrow",
                                          amount |-> request.amount,
                                          token |-> "MATIC", status |-> "completed",
                                          txHash |-> txCount + 1])
    /\ isModalOpen' = FALSE
    /\ isSubmitting' = FALSE
    /\ request' = IdleRequest
    /\ UNCHANGED <<ctxVars, loanDetails, collateralStatus, loanAmount, isProcessing,
                   pulls, deposit, numberFormat, statusSrc, detailsSrc, lastStarted,
                   scanVars, chainVars, pageVars, repayVars, liquidations, accountVars, quoteVars>>

\* send() rejects, before the transaction had a hash (the user refuses) or
\* after (it was broadcast and reverted or timed out): catch shows the error,
\* finally clears isSubmitting.
RequestLoanFail(broadcast) ==
    /\ request.pc = "send"
    /\ txCount' = IF broadcast THEN txCount + 1 ELSE txCount
    /\ isSubmitting' = FALSE
    /\ request' = IdleRequest
    /\ UNCHANGED <<ctxVars, loanDetails, collateralStatus, loanAmount, isProcessing,
                   pulls, deposit, numberFormat, ledger, statusSrc, detailsSrc,
                   lastStarted, scanVars, chainVars, pageVars, repayVars, liquidations, accountVars, quoteVars, isModalOpen>>

(***************************************************************************)
(* The Repay tab: loadLoanDetails and handleRepay.                         *)
(***************************************************************************)
\* what the user types into the repayment field; '' counts as 0
RepayAmounts == {0, 50}
IdleRepay == [pc |-> "idle", amount |-> 0, sends |-> 0]
LoadIds == DOMAIN loads

\* The error a rejected send() throws: whether the transaction had been
\* broadcast, and whether the error object carries its transactionHash.
TxErrors ==
    {[broadcast |-> FALSE, carriesHash |-> FALSE],
     [broadcast |-> TRUE, carriesHash |-> FALSE],
     [broadcast |-> TRUE, carriesHash |-> TRUE]}

\* Faulty variant of HasTransactionHash: every error counts as carrying a hash
HasTransactionHashAlways(txError) == TRUE

\* if (txError.transactionHash)
HasTransactionHash(txError) == txError.carriesHash

\* Faulty variant of LoanData: the due date taken from the next position of
\* the result, the credit score
LoanDataShifted(rec, totalDue, nowMs) ==
    [id |-> 1, amount |-> rec[1], repaidAmount |-> rec[2], totalDue |-> totalDue,
     status |-> IF IsOverdue(nowMs, rec[5]) THEN "Overdue" ELSE "Active"]

\* the LoanDetails object loadLoanDetails builds for an active, funded loan
LoanData(rec, totalDue, nowMs) ==
    [id |-> 1, amount |-> rec[1], repaidAmount |-> rec[2], totalDue |-> totalDue,
     status |-> IF IsOverdue(nowMs, rec[4]) THEN "Overdue" ELSE "Active"]

\* loadLoanDetails up to its first await: the guard, then getLoanDetails goes
\* out; rec is the record the destination chain holds at that moment.
loadLoanDetails(acct, dest, w3, caller, rec) ==
    IF acct # "" /\ dest # NULL /\ w3 # NULL
    THEN /\ Len(loads) < MaxPulls
         /\ loads' = Append(loads, [pc |-> "getLoanDetails", loanDetails |-> rec,
                                    caller |-> caller])
    ELSE UNCHANGED loads

\* The end of a loadLoanDetails invocation, and with it the finally block of
\* the handleRepay that awaited it.
FinishLoad(l) ==
    /\ loads' = RemoveAt(loads, l)
    /\ IF loads[l].caller = "repay"
       THEN repayLoading' = FALSE /\ repay' = IdleRepay
       ELSE UNCHANGED <<repayLoading, repay>>

\* getLoanDetails resolves: an active, funded loan goes on to
\* calculateTotalDue, any other record empties the list.
LoadDetailsReturn(l) ==
    /\ loads[l].pc = "getLoanDetails"
    /\ IF loads[l].loanDetails[6] /\ loads[l].loanDetails[7]
       THEN /\ loads' = [loads EXCEPT ![l] = [@ EXCEPT !.pc = "calculateTotalDue"]]
            /\ UNCHANGED <<activeLoans, repayLoading, repay>>
       ELSE /\ activeLoans' = <<>>
            /\ FinishLoad(l)
    /\ UNCHANGED <<ctxVars, syncVars, scanVars, chainVars, pageVars, requestVars, liquidations, accountVars, quoteVars,
                   repayAmount, lastRepay>>

\* calculateTotalDue resolves: the loan is shown.
LoadTotalDueReturn(l, totalDue, nowMs) ==
    /\ loads[l].pc = "calculateTotalDue"
    /\ activeLoans' = <<LoanData(loads[l].loanDetails, totalDue, nowMs)>>
    /\ FinishLoad(l)
    /\ UNCHANGED <<ctxVars, syncVars, scanVars, chainVars, pageVars, requestVars, liquidations, accountVars, quoteVars,
                   repayAmount, lastRepay>>

\* either call rejects: catch shows the error and empties the list.
LoadFail(l) ==
    /\ activeLoans' = <<>>
    /\ FinishLoad(l)
    /\ UNCHANGED <<ctxVars, syncVars, scanVars, chainVars, pageVars, requestVars, liquidations, accountVars, quoteVars,
                   repayAmount, lastRepay>>

\* onChange of the repayment field (disabled while loading or without a loan)
onRepayAmountChange(amount) ==
    /\ ~repayLoading
    /\ activeLoans # <<>>
    /\ amount # repayAmount
    /\ repayAmount' = amount
    /\ UNCHANGED <<ctxVars, syncVars, scanVars, chainVars, pageVars, requestVars, liquidations, accountVars, quoteVars,
                   activeLoans, repayLoading, loads, repay, lastRepay>>

\* The Repay button (disabled while loading or without a loan): handleRepay
\* up to its await of send().
handleRepay ==
    /\ ~repayLoading
    /\ activeLoans # <<>>
    /\ repayAmount > 0
    /\ web3 # NULL
    /\ DestinationContract # NULL
    /\ account # ""
    /\ repay.pc = "idle"
    /\ txCount < MaxTx
    /\ repayLoading' = TRUE
    /\ repay' = [pc |-> "send", amount |-> repayAmount, sends |-> 1]
    /\ UNCHANGED <<ctxVars, syncVars, scanVars, chainVars, pageVars, requestVars, liquidations, accountVars, quoteVars,
                   repayAmount, activeLoans, loads, lastRepay>>

\* send() resolves: the transaction is saved, the field is cleared and the
\* handler awaits loadLoanDetails, which its closure's values let pass the
\* guard.
RepaySendReturn(rec) ==
    /\ repay.pc = "send"
    /\ txCount' = txCount + 1
    /\ ledger' = saveTransaction(ledger, [id |-> 0, chain |-> "base", type |-> "Repay",
                                          amount |-> repay.amount, token |-> "MATIC",
                                          status |-> "completed",
                                          txHash |-> txCount + 1])
    /\ repayAmount' = 0
    /\ repay' = [repay EXCEPT !.pc = "loadLoanDetails"]
    /\ loadLoanDetails("closure", "closure", "closure", "repay", rec)
    /\ lastRepay' = "confirmed"
    /\ UNCHANGED <<ctxVars, loanDetails, collateralStatus, loanAmount, isProcessing,
                   pulls, deposit, numberFormat, statusSrc, detailsSrc, lastStarted,
                   scanVars, chainVars, pageVars, requestVars, liquidations, accountVars, quoteVars, activeLoans,
                   repayLoading>>

\* Faulty variant of RepaySendFail: a catch that calls send() again for a
\* rejected transaction
RepaySendFailResending(txError) ==
    /\ repay.pc = "send"
    /\ repay.sends < 2
    /\ repay' = [repay EXCEPT !.sends = @ + 1]
    /\ lastRepay' = "rejected"
    /\ UNCHANGED <<ctxVars, syncVars, scanVars, chainVars, pageVars, requestVars,
                   liquidations, accountVars, quoteVars, repayAmount, activeLoans, repayLoading, loads>>

\* send() rejects: catch saves a pending entry when the error carries a
\* transaction hash, finally clears loading.
RepaySendFail(txError) ==
    /\ repay.pc = "send"
    /\ txCount' = IF txError.broadcast THEN txCount + 1 ELSE txCount
    /\ ledger' = IF HasTransactionHash(txError)
                 THEN saveTransaction(ledger, [id |-> 0, chain |-> "base",
                                               type |-> "Repay",
                                               amount |-> repay.amount,
                                               token |-> "MATIC", status |-> "pending",
                                               txHash |-> txCount + 1])
                 ELSE ledger
    /\ repayLoading' = FALSE
    /\ repay' = IdleRepay
    /\ lastRepay' = IF txError.broadcast THEN "unconfirmed" ELSE "rejected"
    /\ UNCHANGED <<ctxVars, loanDetails, collateralStatus, loanAmount, isProcessing,
                   pulls, deposit, numberFormat, statusSrc, detailsSrc, lastStarted,
                   scanVars, chainVars, pageVars, requestVars, liquidations, accountVars, quoteVars, repayAmount,
                   activeLoans, loads>>

\* The effect of the Repay tab, [account, DestinationContract]
AccountsChangedOnRepayTab(acct, rec) ==
    /\ web3 # NULL
    /\ acct # account
    /\ account' = acct
    /\ IF acct # "" /\ DestinationContract # NULL
       THEN loadLoanDetails(acct, DestinationContract, web3, "effect", rec)
       ELSE UNCHANGED loads
    /\ UNCHANGED <<web3, OriginContract, DestinationContract, MaticContract, syncVars,
                   scanVars, chainVars, pageVars, requestVars, liquidations, accountVars, quoteVars, repayAmount,
                   activeLoans, repayLoading, repay, lastRepay>>

ChainChangedOnRepayTab(currentChainId, rec) ==
    /\ web3 # NULL
    /\ initializeContracts(currentChainId)
    /\ chainId' = currentChainId
    /\ liveChain' = currentChainId
    /\ IF account # "" /\ DestinationFor(currentChainId) # NULL
       THEN loadLoanDetails(account, DestinationFor(currentChainId), web3, "effect", rec)
       ELSE UNCHANGED loads
    /\ UNCHANGED <<web3, account, syncVars, scanVars, pageVars, requestVars, liquidations, accountVars, quoteVars,
                   repayAmount, activeLoans, repayLoading, repay, lastRepay>>

\* send() of the deposit rejects after the transaction had been broadcast
\* (it reverted, or its confirmation was not seen in time): catch logs,
\* finally clears the busy flag.
DepositSendFailAfterBroadcast ==
    /\ deposit.pc = "send"
    /\ txCount' = txCount + 1
    /\ isProcessing' = FALSE
    /\ deposit' = IdleDeposit
    /\ UNCHANGED <<ctxVars, loanDetails, collateralStatus, loanAmount, pulls,
                   numberFormat, ledger, statusSrc, detailsSrc, lastStarted,
                   scanVars, chainVars, extVars>>

(***************************************************************************)
(* LiquidationsTab: handleLiquidate.                                       *)
(***************************************************************************)
MaxLiquidations == 2
\* the invocations of handleLiquidate that wait for their send(), oldest first
LiquidationIds == DOMAIN liquidations
\* the borrowers whose loans the tab lists
ListedBorrowers == {atRiskLoans[k].borrower : k \in DOMAIN atRiskLoans}

\* The Liquidate Loan button of a listed loan (disabled while loading or
\* while that loan is processed, and by nothing else): handleLiquidate up to
\* its await of send().
handleLiquidate(borrower) ==
    /\ borrower \in ListedBorrowers
    /\ ~loading
    /\ processingLoan # borrower
    /\ account # ""
    /\ DestinationContract # NULL
    /\ Len(liquidations) < MaxLiquidations
    /\ txCount < MaxTx
    /\ processingLoan' = borrower
    /\ loading' = TRUE
    /\ liquidations' = Append(liquidations,
                              [pc |-> "send", borrower |-> borrower, sends |-> 1])
    /\ NothingEnded
    /\ UNCHANGED <<ctxVars, syncVars, chainVars, pageVars, requestVars, repayVars, accountVars, quoteVars,
                   atRiskLoans, scans>>

\* send() resolves: a toast, then loadAtRiskLoans() is called without await:
\* it runs up to its getPastLogs request (its guard passes on the values of
\* the handler's closure, its setLoading(true) is overwritten in the same
\* render), and the finally of handleLiquidate clears both flags.
LiquidateSendReturn(l) ==
    /\ l \in LiquidationIds
    /\ Len(scans) < MaxEvents
    /\ txCount' = txCount + 1
    /\ scans' = Append(scans, [pc |-> "getPastLogs", tasks |-> <<>>])
    /\ processingLoan' = NULL
    /\ loading' = FALSE
    /\ liquidations' = RemoveAt(liquidations, l)
    /\ NothingEnded
    /\ UNCHANGED <<ctxVars, loanDetails, collateralStatus, loanAmount, isProcessing,
                   pulls, deposit, numberFormat, ledger, statusSrc, detailsSrc,
                   lastStarted, chainVars, pageVars, requestVars, repayVars, accountVars, quoteVars,
                   atRiskLoans>>

\* Faulty variant of LiquidateSendFail: a catch with no finally, the flags
\* stay as they are
LiquidateSendFailKeeping(l, broadcast) ==
    /\ l \in LiquidationIds
    /\ txCount' = IF broadcast THEN txCount + 1 ELSE txCount
    /\ liquidations' = RemoveAt(liquidations, l)
    /\ NothingEnded
    /\ UNCHANGED <<ctxVars, loanDetails, collateralStatus, loanAmount, isProcessing,
                   pulls, deposit, numberFormat, ledger, statusSrc, detailsSrc,
                   lastStarted, chainVars, pageVars, requestVars, repayVars, accountVars, quoteVars,
                   atRiskLoans, scans, processingLoan, loading>>

\* send() rejects, before or after the transaction was broadcast: catch shows
\* the error, finally clears both flags.
LiquidateSendFail(l, broadcast) ==
    /\ l \in LiquidationIds
    /\ txCount' = IF broadcast THEN txCount + 1 ELSE txCount
    /\ processingLoan' = NULL
    /\ loading' = FALSE
    /\ liquidations' = RemoveAt(liquidations, l)
    /\ NothingEnded
    /\ UNCHANGED <<ctxVars, loanDetails, collateralStatus, loanAmount, isProcessing,
                   pulls, deposit, numberFormat, ledger, statusSrc, detailsSrc,
                   lastStarted, chainVars, pageVars, requestVars, repayVars, accountVars, quoteVars,
                   atRiskLoans, scans>>

(***************************************************************************)
(* The Borrow tab: the estimated collateral and the prices that are shown  *)
(* with the amount field.                                                  *)
(***************************************************************************)
MaxEstimates == 2
MaxPolls == 2

\* what the amount field (type="number", no minimum) hands to setLoanAmount
TypedAmounts == {-5, 0, 100}
\* answers of getMaticPrice() and getEthPrice(), in units of 10^8
PriceData == {2, 3}
\* the record getLoanDetails returns for an account that has no loan
EmptyLoan == <<0, 0, 0, 0, 0, 0, FALSE>>

EstimateIds == 1..Len(estimates)
PollIds == 1..Len(priceCalls)
NoDeps == <<>>

\* web3.utils.toWei(loanAmount.toString(), 'ether'): n * 10^18 as a string,
\* kept as the multiplier n.
ToWei(n) == Str(n)

\* the dependency list of the estimate effect
EstimateDeps == <<loanAmount, OriginContract, web3>>

\* The effect on [loanAmount, OriginContract, web3], up to the await of
\* updateEstimatedCollateral: the guard sets '0'; otherwise the amount is
\* converted and calculateRequiredCollateral is called.  For a negative
\* amount the conversion or the encoder of the call may throw before the call
\* goes out (the catch logs), or the call goes out.
updateEstimatedCollateral ==
    /\ estimatedFor # EstimateDeps
    /\ estimatedFor' = EstimateDeps
    /\ IF OriginContract = NULL \/ loanAmount = 0 \/ web3 = NULL
       THEN /\ estimatedCollateral' = Str(0)
            /\ UNCHANGED estimates
       ELSE /\ UNCHANGED estimatedCollateral
            /\ \/ /\ Len(estimates) < MaxEstimates
                  /\ estimates' = Append(estimates, [pc |-> "calculateRequiredCollateral",
                                                     arg |-> ToWei(loanAmount)])
               \/ /\ loanAmount < 0
                  /\ UNCHANGED estimates
    /\ UNCHANGED <<ctxVars, syncVars, scanVars, chainVars, pageVars, requestVars, repayVars,
                   liquidations, accountVars, maticPrice, ethPrice, priceError, priceCalls>>

\* calculateRequiredCollateral answers: setEstimatedCollateral(result ?? '0').
EstimateReturn(e) ==
    /\ estimatedCollateral' = Decode(calculateRequiredCollateral(ToNumber(estimates[e].arg)))
    /\ estimates' = RemoveAt(estimates, e)
    /\ UNCHANGED <<ctxVars, syncVars, scanVars, chainVars, pageVars, requestVars, repayVars,
                   liquidations, accountVars, estimatedFor, maticPrice, ethPrice, priceError, priceCalls>>

\* calculateRequiredCollateral throws: the catch logs.
EstimateFail(e) ==
    /\ estimates' = RemoveAt(estimates, e)
    /\ UNCHANGED <<ctxVars, syncVars, scanVars, chainVars, pageVars, requestVars, repayVars,
                   liquidations, accountVars, estimatedCollateral, estimatedFor, maticPrice, ethPrice,
                   priceError, priceCalls>>

\* fetchPrices, run by the effect on [OriginContract] and then by its
\* interval every 30 s, up to the await of Promise.all: both price calls go
\* out on the handle of the closure, which is the bound one while the
\* interval lives.
fetchPrices ==
    /\ OriginContract # NULL
    /\ Len(priceCalls) < MaxPolls
    /\ priceCalls' = Append(priceCalls, [contract |-> OriginContract, chain |-> chainId,
                                         account |-> account])
    /\ UNCHANGED <<ctxVars, syncVars, scanVars, chainVars, pageVars, requestVars, repayVars,
                   liquidations, accountVars, estimatedCollateral, estimates, estimatedFor, maticPrice,
                   ethPrice, priceError>>

\* Number(priceData) / 10**8, in units of 10^8
PriceOf(priceData) == priceData

\* both calls answered: the error is cleared and the prices are set.
GetPricesReturn(i, maticPriceData, ethPriceData) ==
    /\ priceError' = NULL
    /\ maticPrice' = PriceOf(maticPriceData)
    /\ ethPrice' = PriceOf(ethPriceData)
    /\ priceCalls' = RemoveAt(priceCalls, i)
    /\ UNCHANGED <<ctxVars, syncVars, scanVars, chainVars, pageVars, requestVars, repayVars,
                   liquidations, accountVars, estimatedCollateral, estimates, estimatedFor>>

\* one of the calls throws: the catch sets the error text.
GetPricesFail(i) ==
    /\ priceError' = "Error fetching prices"
    /\ priceCalls' = RemoveAt(priceCalls, i)
    /\ UNCHANGED <<ctxVars, syncVars, scanVars, chainVars, pageVars, requestVars, repayVars,
                   liquidations, accountVars, estimatedCollateral, estimates, estimatedFor, maticPrice,
                   ethPrice>>

(***************************************************************************)
(* The transaction store as AccountTab reads it.  A second window of the   *)
(* page shows the Account tab; the browser announces every write of the    *)
(* first window to it with a storage event.                                *)
(***************************************************************************)
\* the key TransactionStore keeps its list under
STORAGE_KEY == "cross_chain_transactions"
\* the other key the page writes (the dark mode setting)
StorageKeys == {STORAGE_KEY, "darkMode"}

\* TransactionStore.getTransactions: the saved list, most recent first
getTransactions(store) == store

\* what the store may hold when the page is opened: nothing, or the pending
\* repayment an earlier session left
StoredLedgers ==
    {<<>>, <<[id |-> 1, chain |-> "base", type |-> "Repay", amount |-> 50,
              token |-> "MATIC", status |-> "pending", txHash |-> 0]>>}

\* The mount effect of AccountTab: the list is read and the listener is
\* registered; writes announced before that reach no listener.
AccountTabMount ==
    /\ ~listener.registered
    /\ transactions' = getTransactions(ledger)
    /\ listener' = [registered |-> TRUE, announced |-> Len(ledger)]
    /\ UNCHANGED <<ctxVars, syncVars, scanVars, chainVars, pageVars, requestVars, repayVars,
                   liquidations, quoteVars>>

\* Faulty variant of handleStorageChange: a listener for another key
handleStorageChangeOtherKey(key) ==
    transactions' = IF key = "transactions" THEN getTransactions(ledger) ELSE transactions

\* handleStorageChange(e): the list is read again when the key is the store's
handleStorageChange(key) ==
    transactions' = IF key = "cross_chain_transactions"
                    THEN getTransactions(ledger)
                    ELSE transactions

\* The browser announces the oldest write of the store that the other window
\* has not been told of.
StorageEvent ==
    /\ listener.registered
    /\ listener.announced < Len(ledger)
    /\ handleStorageChange(STORAGE_KEY)
    /\ listener' = [listener EXCEPT !.announced = @ + 1]
    /\ UNCHANGED <<ctxVars, syncVars, scanVars, chainVars, pageVars, requestVars, repayVars,
                   liquidations, quoteVars>>

\* The browser announces a write of the dark mode setting.
DarkModeStorageEvent ==
    /\ listener.registered
    /\ handleStorageChange("darkMode")
    /\ UNCHANGED <<ctxVars, syncVars, scanVars, chainVars, pageVars, requestVars, repayVars,
                   liquidations, quoteVars, listener>>

(***************************************************************************)
(* The state after construction (useState initial values).                 *)
(***************************************************************************)
ContextInit ==
    /\ web3 = NULL
    /\ account = ""
    /\ OriginContract = NULL
    /\ DestinationContract = NULL
    /\ MaticContract = NULL

BorrowTabViewInit ==
    /\ loanDetails = NullDetails
    /\ collateralStatus = NotCollateralized(Str(0))
    /\ loanAmount = 0
    /\ isProcessing = FALSE
    /\ pulls = <<>>
    /\ deposit = IdleDeposit
    /\ txCount = 0
    /\ statusSrc = [by |-> "init", raw |-> NoRecord]
    /\ detailsSrc = NoRecord
    /\ lastStarted = NoOverlap
    /\ estimatedCollateral = Str(0)
    /\ estimates = <<>>
    /\ estimatedFor = NoDeps
    /\ maticPrice = 0
    /\ ethPrice = 0
    /\ priceError = NULL
    /\ priceCalls = <<>>

AccountTabInit ==
    /\ transactions = <<>>
    /\ listener = [registered |-> FALSE, announced |-> 0]

\* a page opened on an empty store
BorrowTabInit ==
    /\ BorrowTabViewInit
    /\ ledger = <<>>
    /\ AccountTabInit

LiquidationsTabInit ==
    /\ atRiskLoans = <<>>
    /\ loading = FALSE
    /\ processingLoan = NULL
    /\ scans = <<>>
    /\ lastScan = NoScan
    /\ lastCallback = NoCallback
    /\ liquidations = <<>>

AppInit ==
    /\ chainId = SEPOLIA_CHAIN_ID
    /\ isLoading = FALSE
    /\ switches = <<>>
    /\ liveChain \in WalletChains
    /\ chainEvents = <<>>
    /\ boundBefore = <<NULL, NULL, NULL>>

LoanRequestInit ==
    /\ isModalOpen = FALSE
    /\ isSubmitting = FALSE
    /\ request = IdleRequest

RepayTabInit ==
    /\ repayAmount = 0
    /\ activeLoans = <<>>
    /\ repayLoading = FALSE
    /\ loads = <<>>
    /\ repay = IdleRepay
    /\ lastRepay = "none"

SyncInit ==
    /\ ContextInit
    /\ AppInit
    /\ LoanRequestInit
    /\ RepayTabInit
    /\ BorrowTabInit
    /\ numberFormat \in NumberFormats
    /\ LiquidationsTabInit

SyncNext ==
    \/ Mount
    \/ \E acct \in Accounts, raw \in RawRecords :
           AccountsChangedOnBorrowTab(acct, raw)
    \/ \E currentChainId \in ChainIds, raw \in RawRecords : ChainChangedOnBorrowTab(currentChainId, raw)
    \/ \E p \in PullIds : GetLoanDetailsReturn(p)
    \/ \E p \in PullIds : GetLoanDetailsFail(p)
    \/ \E p \in PullIds : CalculateRequiredReturn(p)
    \/ \E p \in PullIds : CalculateRequiredFail(p)
    \/ handleDepositCollateral
    \/ \E raw \in RawRecords : DepositSendReturn(raw)
    \/ DepositSendFail

SpecSync == SyncInit /\ [][SyncNext]_vars

ScanInit ==
    /\ ContextInit
    /\ AppInit
    /\ LoanRequestInit
    /\ RepayTabInit
    /\ BorrowTabInit
    /\ numberFormat = "bigint"
    /\ LiquidationsTabInit

ScanNext ==
    \/ Mount
    \/ \E acct \in Accounts : AccountsChangedOnLiquidationsTab(acct)
    \/ \E currentChainId \in ChainIds : ChainChangedOnLiquidationsTab(currentChainId)
    \/ \E s \in ScanIds, events \in EventLists :
           GetPastLogsReturn(s, events)
    \/ \E s \in ScanIds : GetPastLogsFail(s)
    \/ \E s \in ScanIds : \E i \in DOMAIN scans[s].tasks, rec \in DestRecords :
           TaskLoanDetailsReturn(s, i, rec)
    \/ \E s \in ScanIds : \E i \in DOMAIN scans[s].tasks : TaskLoanDetailsFail(s, i)
    \/ \E s \in ScanIds : \E i \in DOMAIN scans[s].tasks :
           \E totalDue \in TotalDues, nowMs \in NowValues :
               TaskTotalDueReturn(s, i, totalDue, nowMs)
    \/ \E s \in ScanIds : \E i \in DOMAIN scans[s].tasks : TaskTotalDueFail(s, i)

SpecScan == ScanInit /\ [][ScanNext]_vars

\* The Liquidations tab with its Liquidate buttons.
LiquidateNext ==
    \/ ScanNext
    \/ \E borrower \in Borrowers : handleLiquidate(borrower)
    \/ \E l \in LiquidationIds : LiquidateSendReturn(l)
    \/ \E l \in LiquidationIds, broadcast \in BOOLEAN : LiquidateSendFail(l, broadcast)

SpecLiquidate == ScanInit /\ [][LiquidateNext]_vars

\* The page: binding the handles to the wallet's chain.
BindInit ==
    /\ ContextInit
    /\ AppInit
    /\ LoanRequestInit
    /\ RepayTabInit
    /\ BorrowTabInit
    /\ numberFormat = "bigint"
    /\ LiquidationsTabInit

BindNext ==
    \/ MountApp
    \/ connectWallet
    \/ \E i \in SwitchIds : RequestAccountsFail(i)
    \/ \E i \in SwitchIds, acct \in AccountAnswers : RequestAccountsReturn(i, acct)
    \/ \E i \in SwitchIds : GetAccountsFail(i)
    \/ \E i \in SwitchIds, acct \in AccountAnswers : GetAccountsReturn(i, acct)
    \/ \E network \in ChainIds : switchNetwork(network)
    \/ \E i \in SwitchIds : WalletSwitchesChain(i)
    \/ \E i \in SwitchIds : SwitchEthereumChainReturn(i)
    \/ \E i \in SwitchIds : SwitchEthereumChainFail(i)
    \/ \E i \in SwitchIds : GetChainIdReturn(i)
    \/ \E i \in SwitchIds : GetChainIdFail(i)
    \/ \E to \in WalletChains : WalletChainChanged(to)
    \/ handleChainChanged

SpecBind == BindInit /\ [][BindNext]_vars

\* The page with the request dialog of the Borrow tab: transactions sent
\* through the bound handle while the wallet changes chain.
NetworkNext ==
    \/ BindNext
    \/ \E amount \in LoanAmounts : onLoanAmountChange(amount)
    \/ handleLoanRequest
    \/ onClose
    \/ handleConfirm
    \/ RequestLoanReturn
    \/ \E broadcast \in BOOLEAN : RequestLoanFail(broadcast)

SpecNetwork == BindInit /\ [][NetworkNext]_vars

\* A scan of the Liquidations tab and the pulls of the Borrow tab side by
\* side: the user changes tabs while reads are in flight, and the reads of
\* the tab that was left still return.
TabEvents == {<<>>} \cup LogsOf(<<"b1">>)

TabsNext ==
    \/ Mount
    \/ \E acct \in Accounts : AccountsChangedOnLiquidationsTab(acct)
    \/ \E acct \in Accounts : AccountsChangedOnBorrowTab(acct, Requested)
    \/ \E currentChainId \in ChainIds : ChainChangedOnLiquidationsTab(currentChainId)
    \/ \E currentChainId \in ChainIds : ChainChangedOnBorrowTab(currentChainId, Requested)
    \/ \E p \in PullIds : GetLoanDetailsReturn(p)
    \/ \E p \in PullIds : GetLoanDetailsFail(p)
    \/ \E p \in PullIds : CalculateRequiredReturn(p)
    \/ \E p \in PullIds : CalculateRequiredFail(p)
    \/ \E s \in ScanIds, events \in TabEvents : GetPastLogsReturn(s, events)
    \/ \E s \in ScanIds : GetPastLogsFail(s)
    \/ \E s \in ScanIds : \E i \in DOMAIN scans[s].tasks :
           TaskLoanDetailsReturn(s, i, FundedLoan)
    \/ \E s \in ScanIds : \E i \in DOMAIN scans[s].tasks : TaskLoanDetailsFail(s, i)
    \/ \E s \in ScanIds : \E i \in DOMAIN scans[s].tasks :
           \E totalDue \in TotalDues, nowMs \in NowValues :
               TaskTotalDueReturn(s, i, totalDue, nowMs)
    \/ \E s \in ScanIds : \E i \in DOMAIN scans[s].tasks : TaskTotalDueFail(s, i)

SpecTabs == ScanInit /\ [][TabsNext]_vars

\* The Borrow tab's reads of the collateral calculation: the pulls and the
\* estimate for the amount typed.
EstimateRecords == {EmptyLoan, Requested}

EstimateNext ==
    \/ Mount
    \/ \E acct \in Accounts, raw \in EstimateRecords : AccountsChangedOnBorrowTab(acct, raw)
    \/ \E currentChainId \in ChainIds, raw \in EstimateRecords :
           ChainChangedOnBorrowTab(currentChainId, raw)
    \/ \E p \in PullIds : GetLoanDetailsReturn(p)
    \/ \E p \in PullIds : GetLoanDetailsFail(p)
    \/ \E p \in PullIds : CalculateRequiredReturn(p)
    \/ \E p \in PullIds : CalculateRequiredFail(p)
    \/ \E amount \in TypedAmounts : onLoanAmountChange(amount)
    \/ updateEstimatedCollateral
    \/ \E e \in EstimateIds : EstimateReturn(e)
    \/ \E e \in EstimateIds : EstimateFail(e)

SpecEstimate == SyncInit /\ [][EstimateNext]_vars

\* The price feed of the Borrow tab while the account and the chain change.
PricesNext ==
    \/ Mount
    \/ \E acct \in Accounts : AccountsChangedOnBorrowTab(acct, Collateralized)
    \/ \E currentChainId \in ChainIds : ChainChangedOnBorrowTab(currentChainId, Collateralized)
    \/ \E p \in PullIds : GetLoanDetailsReturn(p)
    \/ \E p \in PullIds : GetLoanDetailsFail(p)
    \/ fetchPrices
    \/ \E i \in PollIds : \E maticPriceData, ethPriceData \in PriceData :
           GetPricesReturn(i, maticPriceData, ethPriceData)
    \/ \E i \in PollIds : GetPricesFail(i)

SpecPrices == ScanInit /\ [][PricesNext]_vars

\* The handlers that send a transaction from the Borrow tab (its request
\* dialog included) and from the Repay tab, with the reads they start.  The
\* wallet connects on one chain and stays on it.
WriteRecords == {Requested, Collateralized}
Unbound == OriginContract = NULL /\ DestinationContract = NULL

WritesNext ==
    \/ Mount
    \/ \E acct \in Accounts, raw \in WriteRecords : AccountsChangedOnBorrowTab(acct, raw)
    \/ \E raw \in WriteRecords :
           Unbound /\ ChainChangedOnBorrowTab(SEPOLIA_CHAIN_ID, raw)
    \/ \E acct \in Accounts, rec \in DestRecords : AccountsChangedOnRepayTab(acct, rec)
    \/ \E rec \in DestRecords :
           Unbound /\ ChainChangedOnRepayTab(BASE_SEPOLIA_CHAIN_ID, rec)
    \/ \E p \in PullIds : GetLoanDetailsReturn(p)
    \/ \E p \in PullIds : GetLoanDetailsFail(p)
    \/ \E p \in PullIds : CalculateRequiredReturn(p)
    \/ \E p \in PullIds : CalculateRequiredFail(p)
    \/ handleDepositCollateral
    \/ \E raw \in WriteRecords : DepositSendReturn(raw)
    \/ DepositSendFail
    \/ DepositSendFailAfterBroadcast
    \/ \E amount \in LoanAmounts : onLoanAmountChange(amount)
    \/ handleLoanRequest
    \/ onClose
    \/ handleConfirm
    \/ RequestLoanReturn
    \/ \E broadcast \in BOOLEAN : RequestLoanFail(broadcast)
    \/ \E l \in LoadIds : LoadDetailsReturn(l)
    \/ \E l \in LoadIds, totalDue \in TotalDues, nowMs \in NowValues :
           LoadTotalDueReturn(l, totalDue, nowMs)
    \/ \E l \in LoadIds : LoadFail(l)
    \/ \E amount \in RepayAmounts : onRepayAmountChange(amount)
    \/ handleRepay
    \/ \E rec \in DestRecords : RepaySendReturn(rec)
    \/ \E txError \in TxErrors : RepaySendFail(txError)

SpecWrites == ScanInit /\ [][WritesNext]_vars

\* The three tabs with their write handlers and the scan, bound once: every
\* action that sets a busy flag, and every continuation that clears one.
BusyNext ==
    \/ WritesNext
    \/ \E acct \in Accounts : AccountsChangedOnLiquidationsTab(acct)
    \/ Unbound /\ ChainChangedOnLiquidationsTab(BASE_SEPOLIA_CHAIN_ID)
    \/ \E s \in ScanIds, events \in TabEvents : GetPastLogsReturn(s, events)
    \/ \E s \in ScanIds : GetPastLogsFail(s)
    \/ \E s \in ScanIds : \E i \in DOMAIN scans[s].tasks :
           TaskLoanDetailsReturn(s, i, FundedLoan)
    \/ \E s \in ScanIds : \E i \in DOMAIN scans[s].tasks : TaskLoanDetailsFail(s, i)
    \/ \E s \in ScanIds : \E i \in DOMAIN scans[s].tasks :
           \E totalDue \in TotalDues, nowMs \in NowValues :
               TaskTotalDueReturn(s, i, totalDue, nowMs)
    \/ \E s \in ScanIds : \E i \in DOMAIN scans[s].tasks : TaskTotalDueFail(s, i)
    \/ \E borrower \in Borrowers : handleLiquidate(borrower)
    \/ \E l \in LiquidationIds : LiquidateSendReturn(l)
    \/ \E l \in LiquidationIds, broadcast \in BOOLEAN : LiquidateSendFail(l, broadcast)

SpecBusy == ScanInit /\ [][BusyNext]_vars

\* The same program when every call that went out is answered, its promise
\* resolving or rejecting: the sends of the four write handlers, the reads of
\* the pulls and of loadLoanDetails, and the requests of the scans.
SpecBusyFair ==
    /\ SpecBusy
    /\ WF_vars(\/ \E raw \in WriteRecords : DepositSendReturn(raw)
               \/ DepositSendFail
               \/ DepositSendFailAfterBroadcast)
    /\ WF_vars(\E p \in PullIds : \/ GetLoanDetailsReturn(p)
                                  \/ GetLoanDetailsFail(p)
                                  \/ CalculateRequiredReturn(p)
                                  \/ CalculateRequiredFail(p))
    /\ WF_vars(RequestLoanReturn \/ \E broadcast \in BOOLEAN : RequestLoanFail(broadcast))
    /\ WF_vars(\/ \E rec \in DestRecords : RepaySendReturn(rec)
               \/ \E txError \in TxErrors : RepaySendFail(txError))
    /\ WF_vars(\E l \in LoadIds :
                   \/ LoadDetailsReturn(l)
                   \/ \E totalDue \in TotalDues, nowMs \in NowValues :
                          LoadTotalDueReturn(l, totalDue, nowMs)
                   \/ LoadFail(l))
    /\ WF_vars(\E l \in LiquidationIds :
                   \/ LiquidateSendReturn(l)
                   \/ \E broadcast \in BOOLEAN : LiquidateSendFail(l, broadcast))
    /\ WF_vars(\E s \in ScanIds :
                   \/ \E events \in TabEvents : GetPastLogsReturn(s, events)
                   \/ GetPastLogsFail(s)
                   \/ \E i \in DOMAIN scans[s].tasks :
                          \/ TaskLoanDetailsReturn(s, i, FundedLoan)
                          \/ TaskLoanDetailsFail(s, i)
                          \/ \E totalDue \in TotalDues, nowMs \in NowValues :
                                 TaskTotalDueReturn(s, i, totalDue, nowMs)
                          \/ TaskTotalDueFail(s, i))

\* The Repay tab and the Liquidations tab side by side on the destination
\* chain: loadLoanDetails and the callbacks of the scan decode the records
\* getLoanDetails returns and read the clock.
DecodersNext ==
    \/ Mount
    \/ \E acct \in Accounts, rec \in DestRecords : AccountsChangedOnRepayTab(acct, rec)
    \/ \E acct \in Accounts : AccountsChangedOnLiquidationsTab(acct)
    \/ \E rec \in DestRecords : ChainChangedOnRepayTab(BASE_SEPOLIA_CHAIN_ID, rec)
    \/ ChainChangedOnLiquidationsTab(BASE_SEPOLIA_CHAIN_ID)
    \/ \E l \in LoadIds : LoadDetailsReturn(l)
    \/ \E l \in LoadIds, totalDue \in TotalDues, nowMs \in NowValues :
           LoadTotalDueReturn(l, totalDue, nowMs)
    \/ \E l \in LoadIds : LoadFail(l)
    \/ \E s \in ScanIds, events \in TabEvents : GetPastLogsReturn(s, events)
    \/ \E s \in ScanIds : GetPastLogsFail(s)
    \/ \E s \in ScanIds : \E i \in DOMAIN scans[s].tasks, rec \in DestRecords :
           TaskLoanDetailsReturn(s, i, rec)
    \/ \E s \in ScanIds : \E i \in DOMAIN scans[s].tasks : TaskLoanDetailsFail(s, i)
    \/ \E s \in ScanIds : \E i \in DOMAIN scans[s].tasks :
           \E totalDue \in TotalDues, nowMs \in NowValues :
               TaskTotalDueReturn(s, i, totalDue, nowMs)
    \/ \E s \in ScanIds : \E i \in DOMAIN scans[s].tasks : TaskTotalDueFail(s, i)

SpecDecoders == ScanInit /\ [][DecodersNext]_vars

\* The store under the write handlers of both tabs, read by the Account tab
\* of a second window; the page may be opened on a store that an earlier
\* session has written.
LedgerInit ==
    /\ ContextInit
    /\ AppInit
    /\ LoanRequestInit
    /\ RepayTabInit
    /\ BorrowTabViewInit
    /\ ledger \in StoredLedgers
    /\ AccountTabInit
    /\ numberFormat = "bigint"
    /\ LiquidationsTabInit

LedgerNext ==
    \/ WritesNext
    \/ AccountTabMount
    \/ StorageEvent
    \/ DarkModeStorageEvent

SpecLedger == LedgerInit /\ [][LedgerNext]_vars

\* The browser delivers every storage event it has queued.
SpecLedgerFair == SpecLedger /\ WF_vars(StorageEvent)

(***************************************************************************)
(* Properties of the loan-state pull (SpecSync).                           *)
(*                                                                         *)
(* statusSrc names the writer of collateralStatus: once a pull has written *)
(* it, statusSrc.raw is the getLoanDetails result that pull had read, in   *)
(* the contract's order: raw[1] collateral, raw[2] loanAmount, raw[7]      *)
(* active.                                                                 *)
(***************************************************************************)
StatusFromPull == statusSrc.by = "pull"

C2_NoLoanResets ==
    (StatusFromPull /\ ~statusSrc.raw[7] /\ statusSrc.raw[1] = 0)
        => (collateralStatus = NotCollateralized(Str(0)) /\ loanAmount = 0)

\* C3: a pull that read a record with active = false and collateralAmount # 0
\* and completed its reads leaves the status {false, required}, required
\* being what calculateRequiredCollateral returns for the record's loanAmount.
C3_RequestedNeedsCollateral ==
    (StatusFromPull /\ ~statusSrc.raw[7] /\ statusSrc.raw[1] # 0)
        => collateralStatus =
               NotCollateralized(Str(calculateRequiredCollateral(statusSrc.raw[2])))

C3_Witness ==
    /\ StatusFromPull
    /\ statusSrc.raw = PartlyFunded
    /\ collateralStatus.requiredCollateral = Str(300)
    /\ ~collateralStatus.isFullyCollateralized

C5_NewerPullWins ==
    (lastStarted.fin = "ok" /\ pulls = <<>>)
        => loanDetails = ParseLoanDetails(DecodeLoanDetails(lastStarted.snap))

\* C6: the stored LoanRecord is, in all its seven fields, the record of the
\* one pull that wrote it last (detailsSrc is that pull's getLoanDetails
\* result), after any interleaving of pulls: never a mix of two records.
C6_WholeRecordReplacement ==
    \/ (loanDetails = NullDetails /\ detailsSrc = NoRecord)
    \/ (detailsSrc \in RawRecords
        /\ loanDetails = ParseLoanDetails(DecodeLoanDetails(detailsSrc)))

\* two pulls overlapped, the newer one completed first and the older one
\* wrote last: the stored record is the older pull's, whole.
C6_Witness ==
    /\ lastStarted.fin = "ok"
    /\ pulls = <<>>
    /\ detailsSrc # lastStarted.snap
    /\ loanDetails = ParseLoanDetails(DecodeLoanDetails(detailsSrc))

\* The status the derivation rules give for a record: none/unavailable and
\* no-loan records are not collateralized with requirement 0, a requested
\* loan with collateral on record needs the computed requirement, an active
\* loan is fully collateralized.
DerivedStatus(d) ==
    IF d = NullDetails THEN NotCollateralized(Str(0))
    ELSE IF d.active THEN FullyCollateralized
    ELSE IF d.collateralAmount.val = 0 THEN NotCollateralized(Str(0))
    ELSE NotCollateralized(Str(calculateRequiredCollateral(d.loanAmount.val)))

\* C7: whenever no pull is in flight, the displayed status is the status the
\* derivation rules give for the displayed record.
C7_StatusIsFunctionOfRecord ==
    pulls = <<>> => collateralStatus = DerivedStatus(loanDetails)

(***************************************************************************)
(* Properties of the liquidation scan (SpecScan).                          *)
(*                                                                         *)
(* lastCallback is the per-borrower callback that returned in the step     *)
(* just taken, with the record and the clock value it had read; lastScan   *)
(* is the scan that ended in that step, with the results of its callbacks. *)
(***************************************************************************)
\* active and funded and now_ms > dueDate_seconds * 1000
ActiveFundedOverdue(rec, nowMs) == rec[6] /\ rec[7] /\ nowMs > rec[4] * 1000

RiskPositionsOf(entries, b) ==
    {i \in DOMAIN entries : entries[i].borrower = b /\ entries[i].result # NullLoan}

\* C8: a scan puts a borrower in the risk set exactly when the record it read
\* for that borrower is active and funded and the clock it read is past
\* dueDate * 1000 (at dueDate * 1000 and before: excluded): every callback
\* returns a risk position for its borrower exactly then, and a scan that
\* completes publishes exactly the risk positions its callbacks returned.
C8_ScanIncludesExactlyOverdue ==
    /\ lastCallback.returned =>
           /\ (lastCallback.result # NullLoan)
                  <=> ActiveFundedOverdue(lastCallback.loanDetails, lastCallback.at)
           /\ lastCallback.result # NullLoan
                  => lastCallback.result.borrower = lastCallback.borrower
    /\ lastScan.outcome = "published" =>
           /\ Len(atRiskLoans) =
                  Cardinality(UNION {RiskPositionsOf(lastScan.entries, b) : b \in Borrowers})
           /\ \A b \in Borrowers :
                  (\E j \in DOMAIN atRiskLoans : atRiskLoans[j].borrower = b)
                      <=> RiskPositionsOf(lastScan.entries, b) # {}

\* a scan of two log entries completes with a callback that read the clock
\* one millisecond past the due instant: its borrower is published, the
\* other one is not.
C8_Witness ==
    /\ lastScan.outcome = "published"
    /\ Len(lastScan.entries) = 2
    /\ lastCallback.returned
    /\ lastCallback.loanDetails = FundedLoan
    /\ lastCallback.at = FundedLoan[4] * 1000 + 1
    /\ Len(atRiskLoans) = 1
    /\ atRiskLoans[1].borrower = lastCallback.borrower

\* C9: a scan in which the lookup of one borrower (getLoanDetails or
\* calculateTotalDue) failed still completes and publishes the others.
C9_FailedLookupSkipsOnlyThatBorrower ==
    lastScan.cause = "lookup" => lastScan.outcome = "published"

\* C10: a scan that met a log entry which does not decode skips it and
\* still processes the other entries and completes.
C10_MalformedEntrySkipped ==
    lastScan.cause = "decode" => lastScan.outcome = "published"

(***************************************************************************)
(* Failure and precondition properties of the loan-state pull (SpecSync).  *)
(***************************************************************************)
\* C11: a pull one of whose contract reads errors publishes neither a record
\* nor a status.  A pull that ends without writing the status is one that
\* failed; it failed at its first read, before setLoanDetails, and not at
\* calculateRequiredCollateral, where its record is stored already.
C11_FailedPullPublishesNothing ==
    [][\A p \in DOMAIN pulls :
           (/\ pulls' = RemoveAt(pulls, p)
            /\ statusSrc' # [by |-> "pull", raw |-> pulls[p].snap])
               => pulls[p].pc = "getLoanDetails"]_vars

\* C12: while there is no origin binding or no account, the loan view is
\* unavailable: the record is null and the status is the initial one, nothing
\* obtained under an earlier binding or account stays exposed.
C12_NoBindingMeansUnavailable ==
    (OriginContract = NULL \/ account = "")
        => (loanDetails = NullDetails /\ collateralStatus = NotCollateralized(Str(0)))

\* C17: a deposit is submitted only when the last sync pull reported not
\* fully collateralized with a nonzero required amount, and its value is
\* exactly that amount; no deposit of value 0 is submitted.
C17_DepositOnlyRequiredAmount ==
    [][(deposit.pc = "idle" /\ deposit'.pc = "send")
           => (/\ statusSrc.by = "pull"
               /\ ~collateralStatus.isFullyCollateralized
               /\ collateralStatus.requiredCollateral.val # 0
               /\ deposit'.value = collateralStatus.requiredCollateral)]_vars

(***************************************************************************)
(* Properties of the binding of the handles (SpecBind, SpecNetwork).       *)
(***************************************************************************)
\* C13: the handles follow the wallet's chain.  Once the page's handlers have
\* finished and no chainChanged event is waiting, every bound handle is one
\* of the chain the wallet is on; and a loan request that is sent through
\* the origin handle goes to the origin chain.
C13_HandlesFollowLiveChain ==
    /\ (switches = <<>> /\ chainEvents = <<>>)
           => /\ OriginContract # NULL => liveChain = SEPOLIA_CHAIN_ID
              /\ (DestinationContract # NULL \/ MaticContract # NULL)
                     => liveChain = BASE_SEPOLIA_CHAIN_ID
    /\ request.pc = "send" => request.chain = SEPOLIA_CHAIN_ID

C15_BindingIsWholeOrEmpty ==
    <<OriginContract, DestinationContract, MaticContract>>
        \in {<<NULL, NULL, NULL>>, <<"origin", NULL, NULL>>, <<NULL, "destination", "matic">>}

\* the page has replaced the handles of the destination chain by the handle
\* of the origin chain
C15_Witness ==
    /\ boundBefore = <<NULL, "destination", "matic">>
    /\ <<OriginContract, DestinationContract, MaticContract>> = <<"origin", NULL, NULL>>

(***************************************************************************)
(* Properties of the ledger under the write handlers (SpecWrites).         *)
(***************************************************************************)
\* the Borrow tab shows a requested loan that waits for its collateral
AwaitingCollateral ==
    /\ loanDetails # NullDetails
    /\ ~loanDetails.active
    /\ loanDetails.loanAmount.val > 0
    /\ ~collateralStatus.isFullyCollateralized
    /\ collateralStatus.requiredCollateral.val > 0

\* C16: when the requestLoan transaction succeeds, exactly one entry of type
\* Borrow and status completed with the transaction's hash is put on the
\* ledger, and the Borrow tab moves to awaiting collateral: it shows the
\* requested loan, or a pull that will show it has been started.
C16_RequestSuccessRecordedAndAwaiting ==
    [][RequestLoanReturn
          => /\ Len(ledger') = Len(ledger) + 1
             /\ SubSeq(ledger', 2, Len(ledger')) = ledger
             /\ ledger'[1].type = "Borrow"
             /\ ledger'[1].status = "completed"
             /\ ledger'[1].txHash = txCount'
             /\ (AwaitingCollateral' \/ Len(pulls') > Len(pulls))]_vars

\* a send() that was in flight has ended
DepositSendEnded == deposit.pc = "send" /\ deposit'.pc # "send"
RepaySendEnded == repay.pc = "send" /\ repay'.pc # "send"
RequestSendEnded == request.pc = "send" /\ request'.pc # "send"

\* C18: when the send of a loan request, a collateral deposit or a repayment
\* fails after the transaction was broadcast (it has a hash), an entry with
\* status pending and that hash is put on the ledger.
C18_UnconfirmedSendLeavesPendingEntry ==
    [][(\/ RequestLoanFail(TRUE)
        \/ deposit.pc = "send" /\ deposit'.pc = "idle" /\ txCount' = txCount + 1
        \/ repay.pc = "send" /\ repay'.pc = "idle" /\ txCount' = txCount + 1)
           => /\ Len(ledger') = Len(ledger) + 1
              /\ ledger'[1].status = "pending"
              /\ ledger'[1].txHash = txCount']_vars

\* C19: when the send of a loan request, a collateral deposit or a repayment
\* is rejected before the transaction has a hash (nothing was broadcast), the
\* ledger is left as it was.
C19_RejectedSendLeavesLedger ==
    [][((RequestSendEnded \/ DepositSendEnded \/ RepaySendEnded) /\ txCount' = txCount)
           => ledger' = ledger]_vars

\* a repayment was sent and rejected by the wallet: the handler has ended
\* and the ledger is still empty
C19_Witness ==
    /\ lastRepay = "rejected"
    /\ repay = IdleRepay
    /\ ~repayLoading
    /\ ledger = <<>>

(***************************************************************************)
(* Properties of the ledger under the liquidation (SpecLiquidate).         *)
(***************************************************************************)
\* C20: every confirmed action of the user is recorded.  When the send of a
\* liquidation resolves, exactly one entry is put on the ledger, as for a
\* loan request, a deposit and a repayment.
C20_ConfirmedLiquidationRecorded ==
    [][(Len(liquidations') < Len(liquidations) /\ processingLoan' = NULL
           /\ Len(scans') > Len(scans))
           => /\ Len(ledger') = Len(ledger) + 1
              /\ SubSeq(ledger', 2, Len(ledger')) = ledger]_vars

(***************************************************************************)
(* Properties of the borrow workflow (SpecWrites).                         *)
(***************************************************************************)
\* the send() of a deposit, or of a loan request, ended otherwise than by
\* resolving
DepositFailed ==
    deposit.pc = "send" /\ deposit'.pc # "send" /\ ~(\E raw \in WriteRecords : DepositSendReturn(raw))
RequestFailed ==
    request.pc = "send" /\ request'.pc # "send" /\ ~RequestLoanReturn

\* C21: a failed loan request and a failed collateral deposit leave the loan
\* record, the collateral status, the amount and the ledger as they were;
\* the step only clears the busy flag of the handler.
C21_FailureLeavesWorkflowState ==
    [][(DepositFailed \/ RequestFailed)
          => /\ loanDetails' = loanDetails
             /\ collateralStatus' = collateralStatus
             /\ loanAmount' = loanAmount
             /\ ledger' = ledger
             /\ DepositFailed => ~isProcessing'
             /\ RequestFailed => ~isSubmitting']_vars

\* on the origin chain a transaction was broadcast and its send() failed:
\* the handlers are idle again and the ledger has no entry for it
C21_Witness ==
    /\ OriginContract # NULL
    /\ txCount > Len(ledger)
    /\ deposit.pc = "idle"
    /\ request.pc = "idle"
    /\ ~isProcessing
    /\ ~isSubmitting

\* C22: every successful transaction of the workflow, loan request or
\* collateral deposit, puts its entry on the ledger and starts a new pull of
\* the loan state in the same handler run.
C22_SuccessAppendsThenPulls ==
    [][(RequestLoanReturn \/ \E raw \in WriteRecords : DepositSendReturn(raw))
          => /\ Len(ledger') = Len(ledger) + 1
             /\ Len(pulls') = Len(pulls) + 1
             /\ pulls'[Len(pulls')].pc = "getLoanDetails"]_vars

\* C23: a loan whose last pulled record is active is final for the workflow:
\* from then on no requestLoan and no depositCollateral is submitted.
C23_ActiveLoanSubmitsNothing ==
    [][(handleConfirm \/ handleDepositCollateral) => ~IsActive(loanDetails)]_vars

\* C24: nothing is sent again on the client's own account: every send() call
\* of requestLoan, depositCollateral, repayLoan and liquidateLoan is made in
\* the step of a user's confirm action, so the submissions never outnumber
\* the confirm actions, failures included.
C24_EverySubmissionIsConfirmed ==
    [][/\ (deposit'.sends # deposit.sends /\ deposit'.sends > 0)
             => handleDepositCollateral
       /\ (request'.sends # request.sends /\ request'.sends > 0)
             => handleConfirm
       /\ (repay'.sends # repay.sends /\ repay'.sends > 0)
             => handleRepay
       /\ (\/ Len(liquidations') > Len(liquidations)
           \/ \E l \in DOMAIN liquidations' \cap DOMAIN liquidations :
                  liquidations'[l].sends > liquidations[l].sends)
             => \E borrower \in Borrowers : handleLiquidate(borrower)]_vars

\* a repayment confirmed again by the user after the wallet rejected the first
C24_Witness ==
    /\ lastRepay = "rejected"
    /\ repay.pc = "send"
    /\ repay.sends = 1
    /\ txCount = 0

(* Properties of the collateral calculation (SpecEstimate). *)
\* C25: calculateRequiredCollateral is never called with an amount of zero or
\* less, neither by a pull for the required collateral nor by the estimate
\* for the amount typed; for such an amount the estimate is set to 0 and no
\* call goes out.
C25_CalculationOnlyForPositiveAmounts ==
    [][/\ \A p \in DOMAIN pulls' :
             pulls'[p].pc = "calculateRequiredCollateral"
                => ToNumber(RequiredCollateralArg(
                       ParseLoanDetails(DecodeLoanDetails(pulls'[p].snap)))) > 0
       /\ \A e \in DOMAIN estimates' : ToNumber(estimates'[e].arg) > 0
       /\ (updateEstimatedCollateral /\ loanAmount <= 0)
             => (estimatedCollateral' = Str(0) /\ estimates' = estimates)]_vars

(* Properties of the price feed (SpecPrices). *)
StalePoll(call) == call.chain # chainId \/ call.account # account

\* C26: the answer of a price poll that was in flight when the account or
\* the chain changed is dropped: it is not written to the prices.
C26_StalePricesDiscarded ==
    [][\A i \in PollIds :
          ((\E m, e \in PriceData : GetPricesReturn(i, m, e)) /\ StalePoll(priceCalls[i]))
             => UNCHANGED <<maticPrice, ethPrice, priceError>>]_vars

(* Properties of the published risk set (SpecScan). *)
\* the entries of a list that belong to a borrower and satisfy a test
PositionsOf(borrower, loans) ==
    Cardinality({k \in DOMAIN loans : loans[k].borrower = borrower})
OverdueEntriesOf(borrower, entries) ==
    Cardinality({k \in DOMAIN entries :
                    entries[k].borrower = borrower /\ entries[k].result # NullLoan})

\* C27: the scan does not merge entries: a borrower whose loan the callbacks
\* of k LoanRequested entries found active, funded and overdue has k
\* positions in the published set, and each position carries the amount of
\* the loan record the callback read, not the amount of the entry.
C27_OnePositionPerRequestEntry ==
    lastScan.outcome = "published"
       => /\ \A b \in Borrowers :
                PositionsOf(b, atRiskLoans) = OverdueEntriesOf(b, lastScan.entries)
          /\ \A k \in DOMAIN atRiskLoans :
                /\ atRiskLoans[k].amount \in {rec[1] : rec \in DestRecords}
                /\ atRiskLoans[k].amount \notin EventAmounts

\* a scan has published two positions of the same borrower
C27_Witness ==
    /\ lastScan.outcome = "published"
    /\ Len(lastScan.entries) = 2
    /\ PositionsOf("b1", atRiskLoans) = 2
    /\ \A k \in DOMAIN lastScan.entries : lastScan.entries[k].requested \in EventAmounts

\* C28: a scan that fails ends inside loadAtRiskLoans and leaves the empty
\* risk set published, whatever an earlier scan had published.
C28_FailedScanPublishesEmptySet ==
    lastScan.outcome = "failed" => atRiskLoans = <<>>

\* C29: every scan builds the risk set anew and replaces the published one as
\* a whole: when a scan has published, the set holds the positions this
\* scan's callbacks returned, in the order of its entries, and nothing else.
C29_PublishedSetIsTheScansOwn ==
    lastScan.outcome = "published" => atRiskLoans = FilterLoans(lastScan.entries)

\* a scan of two entries has published the one position it found
C29_Witness ==
    /\ lastScan.outcome = "published"
    /\ Len(lastScan.entries) = 2
    /\ Len(atRiskLoans) = 1
    /\ lastScan.entries[1].result = NullLoan

(* Properties of scans and pulls side by side (SpecTabs). *)
\* a step of a scan in flight, and a step of a pull in flight
ScanStep == scans' # scans /\ Len(scans') <= Len(scans)
PullStep == pulls' # pulls /\ Len(pulls') <= Len(pulls)

\* C30: the scan only reads: a step of a scan, between whatever steps of
\* pulls, leaves the loan record, the collateral status, the three handles
\* and the ledger as they are, and it leaves the pulls in flight as they are,
\* as a step of a pull leaves the scans in flight: neither waits for the other.
C30_ScanOnlyReads ==
    [][/\ ScanStep => UNCHANGED <<loanDetails, collateralStatus, OriginContract,
                                  DestinationContract, MaticContract, ledger, pulls>>
       /\ PullStep => UNCHANGED <<scans, atRiskLoans>>]_vars

\* a scan and a pull are in flight together, the pull having stored a record
C30_Witness ==
    /\ scans # <<>>
    /\ pulls # <<>>
    /\ loanDetails # NullDetails
    /\ \E s \in ScanIds : scans[s].pc = "checking"

(* Properties of the transaction store (SpecLedger). *)
\* C31: the store only grows: in every step each entry it holds stays, with
\* all its fields, except that a pending entry may become completed; no
\* entry is removed, a pending entry of a failed transaction included.
C31_LedgerAppendOnly ==
    [][/\ Len(ledger') >= Len(ledger)
       /\ \A i \in DOMAIN ledger :
             LET old == ledger[i]
                 new == ledger'[i + Len(ledger') - Len(ledger)]
             IN  \/ new = old
                 \/ /\ old.status = "pending"
                    /\ new = [old EXCEPT !.status = "completed"]]_vars

\* a transaction was saved on top of the pending entry of an earlier session
C31_Witness ==
    /\ Len(ledger) = 2
    /\ ledger[2].status = "pending"
    /\ ledger[2].txHash = 0
    /\ ledger[1].txHash = 1

\* the entry a handler whose send() has ended hands to saveTransaction
PassedToStore(e) ==
    \/ /\ deposit.pc = "send"
       /\ e.chain = "sepolia" /\ e.type = "Deposit Collateral" /\ e.token = "ETH"
       /\ e.amount = FromWeiNumber(deposit.value) /\ e.status = "completed"
    \/ /\ request.pc = "send"
       /\ e.chain = "sepolia" /\ e.type = "Borrow" /\ e.token = "MATIC"
       /\ e.amount = request.amount /\ e.status = "completed"
    \/ /\ repay.pc = "send"
       /\ e.chain = "base" /\ e.type = "Repay" /\ e.token = "MATIC"
       /\ e.amount = repay.amount /\ e.status \in {"completed", "pending"}

\* C32: what is saved is what is read back first: after a handler has saved
\* an entry, getTransactions returns that entry as its first element and the
\* entries saved before behind it; a store nothing was saved to reads as the
\* empty list.
C32_SavedEntryIsReadFirst ==
    [][/\ ledger' # ledger
             => /\ PassedToStore(Head(getTransactions(ledger')))
                /\ Head(getTransactions(ledger')).txHash = txCount'
                /\ Tail(getTransactions(ledger')) = getTransactions(ledger)
       /\ ledger = <<>> => getTransactions(ledger) = <<>>
       /\ AccountTabMount => transactions' = getTransactions(ledger)]_vars

\* the Account tab, mounted after a deposit was saved on top of an older
\* entry, lists the deposit first
C32_Witness ==
    /\ listener.registered
    /\ Len(transactions) = 2
    /\ transactions[1].type = "Deposit Collateral"
    /\ transactions[2].txHash = 0

(* Properties of the Account tab of a second window (SpecLedgerFair). *)
HasEntry(list, txHash) == \E i \in DOMAIN list : list[i].txHash = txHash

C34_BindingsExclusive ==
    /\ ~(OriginContract # NULL /\ DestinationContract # NULL)
    /\ (MaticContract # NULL) <=> (DestinationContract # NULL)

\* the destination chain is bound while a chainChanged event waits and a
\* switchNetwork call is still running
C34_Witness ==
    /\ DestinationContract # NULL
    /\ MaticContract # NULL
    /\ chainEvents # <<>>
    /\ \E i \in DOMAIN switches : switches[i].kind = "switchNetwork"

(* Properties of overlapping scans (SpecScan). *)
\* C35: of two scans that overlap, the one started last decides the risk
\* set: when the older scan completes right after the newer one has
\* published, the older scan's result does not replace the published set.
C35_NewestScanWins ==
    [][(/\ lastScan.outcome = "published"
        /\ lastScan.place > 1
        /\ lastScan'.outcome = "published"
        /\ lastScan'.place < lastScan.place)
           => atRiskLoans' = atRiskLoans]_vars

(***************************************************************************)
(* Properties of the Liquidate buttons (SpecLiquidate).                    *)
(***************************************************************************)
\* C36: liquidations do not overlap.  At most one liquidateLoan call waits
\* for its answer, and while it waits processingLoan names its borrower: a
\* scan that ends meanwhile enables no second liquidation, and the end of one
\* liquidation does not clear the marker of another.
C36_OneLiquidationInFlight ==
    /\ Len(liquidations) <= 1
    /\ \A l \in LiquidationIds : processingLoan = liquidations[l].borrower

(***************************************************************************)
(* Properties of the busy flags of the borrow workflow (SpecWrites).       *)
(***************************************************************************)
\* C37: at most one transaction of the borrow workflow waits for its answer:
\* a requestLoan and a depositCollateral are never pending together.
C37_OneWorkflowTransactionInFlight ==
    ~(request.pc = "send" /\ deposit.pc = "send")

(***************************************************************************)
(* Progress of the busy flags when every call is answered (SpecBusyFair).  *)
(***************************************************************************)
\* C38: every write action and every scan that was started clears its busy
\* flag in the end, whether its call resolves or rejects: isProcessing after
\* a deposit, isSubmitting after a request, the Repay tab's loading after a
\* repayment, loading and processingLoan after a liquidation, loading after a
\* scan.
C38_BusyFlagsAreCleared ==
    /\ isProcessing ~> ~isProcessing
    /\ isSubmitting ~> ~isSubmitting
    /\ repayLoading ~> ~repayLoading
    /\ loading ~> ~loading
    /\ (processingLoan # NULL) ~> (processingLoan = NULL)
\* a liquidation of a listed loan was answered (the transaction went out) and
\* nothing is busy any more
C38_Witness ==
    /\ atRiskLoans # <<>>
    /\ txCount = 1
    /\ liquidations = <<>>
    /\ scans = <<>>
    /\ processingLoan = NULL
    /\ ~loading

(***************************************************************************)
(* The two readers of the destination record (SpecDecoders).               *)
(***************************************************************************)
\* the callback of the scan that returned last had read the record that the
\* load l holds
SameRecord(l) ==
    lastCallback.returned /\ lastCallback.loanDetails = loads[l].loanDetails

\* C39: the Repay tab and the scan decode the destination record alike.  On
\* the same getLoanDetails result and the same clock value the Repay tab
\* shows the status Overdue exactly when the callback of the scan returns a
\* position for the risk set: a record one of them drops as not active or
\* not funded the other drops too, and both compare the clock with the same
\* due instant.
C39_DecodersAgree ==
    [][/\ \A l \in LoadIds :
              (LoadDetailsReturn(l) /\ SameRecord(l))
                  => IF Len(loads') < Len(loads)
                     THEN lastCallback.result = NullLoan /\ lastCallback.at = 0
                     ELSE lastCallback.at # 0
       /\ \A l \in LoadIds, totalDue \in TotalDues, nowMs \in NowValues :
              (LoadTotalDueReturn(l, totalDue, nowMs) /\ SameRecord(l)
                   /\ lastCallback.at = nowMs)
                  => ((activeLoans'[1].status = "Overdue")
                          <=> (lastCallback.result # NullLoan))]_vars

\* the scan has just returned a position for a record read at a clock value,
\* and the Repay tab shows a loan as overdue
C39_Witness ==
    /\ lastCallback.returned
    /\ lastCallback.result # NullLoan
    /\ lastCallback.at = FundedLoan[4] * MS_PER_SECOND + 1
    /\ loads = <<>>
    /\ activeLoans # <<>>
    /\ activeLoans[1].status = "Overdue"

====
